---- MODULE Spec2Model ----
(***************************************************************************)
(* CHEM-VIZ PDF report generator (services/pdfGenerator.js) together with  *)
(* the data-provider functions it awaits (services/api.js).                *)
(*                                                                         *)
(* Vertical coordinates are kept in hundredths of a point, so that the     *)
(* jsPDF page sizes (841.89pt, 595.28pt) are exact integers.               *)
(* Non-ASCII characters of the source strings are written in ASCII:        *)
(* the bullet of the title as "*", the em dash as "--", the cube as "3".   *)
(***************************************************************************)
EXTENDS Integers, Sequences, FiniteSets, TLC

VARIABLES config, gen, docs, pc, ds, fetch, fetched, result, mydoc, arg, auth, app, view, upload

vars == <<config, gen, docs, pc, ds, fetch, fetched, result, mydoc, arg, auth, app, view, upload>>

----------------------------------------------------------------------------
(* Bounds of the model *)

MaxCalls == 2       \* generate calls that may be in progress together
MaxRows == 25       \* longest preview a response carries
MaxHeaders == 7     \* longest column list a response carries
MaxBars == 3        \* longest chart series a response carries (but see LongSeries)
MaxBarCount == 40   \* longest series _drawChartsSection is called with on its own
MaxAppAuthCalls == 2 \* calls of login and logout made while App is mounted
MaxViewRequests == 2 \* requests a component sends through getAnalysis / getDatasetSummary
MaxUploadRequests == 3 \* uploadCSV requests CSVUpload sends
MaxUploads == 2     \* uploads CSVUpload reports to App
MaxAuthCalls == 2   \* calls of login, register and logout made on authService
LongSeries == 11    \* a series longer than the slice(0, 10) of the temperature chart

Calls == 1..MaxCalls
Datasets == {"a", "b"}
Fetches == {"dataset", "summary", "analysis"}

Pt(n) == n * 100

Max(a, b) == IF a >= b THEN a ELSE b
Min(a, b) == IF a <= b THEN a ELSE b

RECURSIVE SeqSum(_)
SeqSum(s) == IF s = <<>> THEN 0 ELSE Head(s) + SeqSum(Tail(s))

RECURSIVE SeqMax(_)
SeqMax(s) == IF Len(s) = 1 THEN s[1] ELSE Max(Head(s), SeqMax(Tail(s)))

\* Array.prototype.slice(0, n)
Slice(s, n) == SubSeq(s, 1, Min(n, Len(s)))

----------------------------------------------------------------------------
(* JavaScript values.  A cell or field value is a string; the two          *)
(* sentinels stand for the values undefined and null.                      *)

Undef == "<undefined>"
Null == "<null>"

\* String(v)
JSString(v) == IF v = Undef THEN "undefined" ELSE IF v = Null THEN "null" ELSE v

\* a ?? b
Nullish(a, b) == IF a = Undef \/ a = Null THEN b ELSE a

\* Number fields of a response: NoNum stands for an absent field.
NoNum == -1

\* n || 0 for a number field
NumOrZero(n) == IF n = NoNum THEN 0 ELSE n

----------------------------------------------------------------------------
(* PDF_REPORT_CONFIG (config/pdfReportConfig.js) and the page formats of   *)
(* jsPDF that generate() reads.                                            *)

DefaultConfig ==
  [ size |-> "a4",
    top |-> Pt(72), bottom |-> Pt(72), left |-> Pt(56), right |-> Pt(56),
    md |-> Pt(16),
    metaTop |-> Pt(24), metaBottom |-> Pt(32),
    summaryBottom |-> Pt(24),
    chartsBottom |-> Pt(24),
    maxRows |-> 20,
    rowHeight |-> Pt(24) ]

\* Configurations the layout is exercised with: the shipped one, one on a
\* shorter page, and ones whose table is long or tall enough to break pages.
Configs ==
  { DefaultConfig,
    [DefaultConfig EXCEPT !.maxRows = 30],
    [DefaultConfig EXCEPT !.maxRows = 3, !.rowHeight = Pt(200)],
    [DefaultConfig EXCEPT !.size = "letter", !.maxRows = 5, !.rowHeight = Pt(200)],
    [DefaultConfig EXCEPT !.maxRows = 2, !.rowHeight = 0] }

\* doc.internal.pageSize.getWidth() / getHeight() in portrait orientation
PageWidthOf(size) == IF size = "a4" THEN 59528 ELSE 61200
PageHeightOf(size) == IF size = "a4" THEN 84189 ELSE 79200

\* config.colors
Colors == [equipment |-> "#8B5CF6", temperature |-> "#F59E0B", pressure |-> "#EF4444"]

HeaderTitle == "CHEM*VIZ Analysis Report"
SummaryTitle == "Summary"
ChartsTitle == "Data Visualization"
TableTitle == "Equipment Data"

----------------------------------------------------------------------------
(* Strings of the model and String.prototype.substring(0, n) on them.      *)

LongHeader == "temperature_in_celsius"
LongCell == "centrifugal-pump-07"
LongLabel == "heat-exchanger"

StrLen(s) ==
  CASE s = LongHeader -> 22
    [] s = LongCell -> 19
    [] s = LongLabel -> 14
    [] s = "undefined" -> 9
    [] OTHER -> 8        \* every other string of the model has at most 8 characters

Substring(s, n) ==
  IF StrLen(s) <= n THEN s
  ELSE CASE s = LongHeader /\ n = 15 -> "temperature_in_"
         [] s = LongCell /\ n = 12 -> "centrifugal-"
         [] s = LongLabel /\ n = 8 -> "heat-exc"
         [] s = "undefined" /\ n = 8 -> "undefine"
         [] OTHER -> s

\* parseFloat(v) || 0 on the cell values of the model
ParseFloatOrZero(v) ==
  CASE v = "10" -> 10
    [] v = "20" -> 20
    [] v = "35" -> 35
    [] OTHER -> 0

----------------------------------------------------------------------------
(* Responses of the backend.                                               *)

AllHeaders ==
  <<"name", "type", "flowrate", "pressure", LongHeader, "status", "notes", "site", "extra">>

Headers(n) == SubSeq(AllHeaders, 1, n)
HeaderSet(n) == {AllHeaders[j] : j \in 1..n}

\* The value the backend stores for row i under column h.
CellOf(i, h) ==
  CASE h = "name" -> IF i = 1 THEN LongCell ELSE "eq"
    [] h = "type" -> IF i % 3 = 0 THEN "valve" ELSE "pump"
    [] h = "flowrate" -> IF i % 2 = 0 THEN "10" ELSE "20"
    [] h = "pressure" -> "35"
    [] h = LongHeader -> IF i % 2 = 0 THEN "20" ELSE "35"
    [] h = "notes" -> ""
    [] OTHER -> "ok"

\* A row is an object: `named` holds its string keys, `pos` its index keys
\* (a row that is an array has only index keys).
RowShapes == {"object", "array", "holes"}

Row(i, shape) ==
  CASE shape = "object" ->
         [named |-> [h \in HeaderSet(MaxHeaders) |-> CellOf(i, h)], pos |-> <<>>]
    [] shape = "array" ->
         [named |-> <<>>, pos |-> [j \in 1..MaxHeaders |-> CellOf(i, AllHeaders[j])]]
    [] shape = "holes" ->
         [named |-> [h \in HeaderSet(MaxHeaders) \ {"flowrate"} |->
                       IF h = "type" THEN Null
                       ELSE IF h = "pressure" THEN Undef ELSE CellOf(i, h)],
          pos |-> <<>>]

\* row[key] for a string key and for an index key (0-based)
RowAtName(row, h) == IF h \in DOMAIN row.named THEN row.named[h] ELSE Undef
RowAtIndex(row, idx) == IF idx + 1 \in DOMAIN row.pos THEN row.pos[idx + 1] ELSE Undef

Preview(n, shape) == [i \in 1..n |-> Row(i, shape)]

RowCounts == {n \in 0..MaxRows : n <= 4 \/ n >= 20}
ColumnCounts == {0, 1, 6, MaxHeaders}

\* GET /datasets/<id>/ as read by getDataset.  The generator reads
\* original_filename and row_count; validationStatus is a field the
\* response may or may not carry.
BaseInfo(d) == [original_filename |-> d, row_count |-> 5, validationStatus |-> Undef]

InfoResponses(d) ==
  { BaseInfo(d),
    [BaseInfo(d) EXCEPT !.validationStatus = "success"],
    [original_filename |-> Undef, row_count |-> NoNum, validationStatus |-> Undef] }

\* GET /datasets/<id>/ as read by getDatasetSummary.  A response is kept
\* as the length and row shape of its data_preview and the length of its
\* columns; DataPreview and Columns give the arrays themselves.
DetailResponse(hasPreview, n, shape, hasColumns, k) ==
  [ hasPreview |-> hasPreview, rows |-> n, shape |-> shape,
    hasColumns |-> hasColumns, cols |-> k ]

DataPreview(response) == Preview(response.rows, response.shape)
Columns(response) == Headers(response.cols)

DetailResponses ==
  { DetailResponse(TRUE, n, "object", TRUE, k) : n \in {m \in RowCounts : m <= 4}, k \in ColumnCounts }
  \cup { DetailResponse(TRUE, n, "object", TRUE, k) :
           n \in {m \in RowCounts : m > 4}, k \in {1, MaxHeaders} }
  \cup { DetailResponse(TRUE, n, shape, TRUE, k) :
           n \in {2, 3}, shape \in RowShapes, k \in ColumnCounts }
  \cup { DetailResponse(FALSE, 0, "object", TRUE, 6),
         DetailResponse(TRUE, 2, "object", FALSE, 0),
         DetailResponse(FALSE, 0, "object", FALSE, 0) }

\* A chart series of a response: either array may be absent.
Series(hasLabels, labels, hasData, data) ==
  [ present |-> TRUE, hasLabels |-> hasLabels, labels |-> labels,
    hasData |-> hasData, data |-> data ]

SeriesAbsent == [Series(FALSE, <<>>, FALSE, <<>>) EXCEPT !.present = FALSE]

BarLabels == <<"pump", "valve", LongLabel, "mixer">>
BarValues == <<5, 3, 2, 7>>

LongLabels == [j \in 1..LongSeries |-> "eq"]
LongValues == [j \in 1..LongSeries |-> j]

FullSeries == Series(TRUE, SubSeq(BarLabels, 1, MaxBars), TRUE, SubSeq(BarValues, 1, MaxBars))
NoLabelsSeries == Series(FALSE, <<>>, TRUE, SubSeq(BarValues, 1, MaxBars))
EmptyLabelsSeries == Series(TRUE, <<>>, TRUE, SubSeq(BarValues, 1, MaxBars))
NoDataSeries == Series(TRUE, SubSeq(BarLabels, 1, MaxBars), FALSE, <<>>)
EmptySeries == Series(TRUE, <<>>, TRUE, <<>>)
OneBarSeries == Series(TRUE, <<"pump">>, TRUE, <<5>>)

EquipmentShapes == {SeriesAbsent, EmptySeries, FullSeries, NoDataSeries}
TemperatureShapes ==
  {SeriesAbsent, FullSeries, Series(TRUE, LongLabels, TRUE, LongValues),
   NoLabelsSeries, EmptyLabelsSeries}
PressureShapes ==
  {SeriesAbsent, FullSeries, NoLabelsSeries, Series(TRUE, <<"pump">>, TRUE, <<0, 4>>),
   Series(TRUE, <<"pump", "valve">>, TRUE, <<0, 0>>)}

\* GET /analysis/<id>/
AnalysisResponses ==
  [ equipment_type_distribution : EquipmentShapes,
    temperature_by_equipment : TemperatureShapes,
    pressure_distribution : PressureShapes ]

\* request(): the error a failed request rejects with (status 0: network)
APIError(status, k) == [name |-> "APIError", status |-> status, from |-> k]
Statuses == {0, 404, 500}

----------------------------------------------------------------------------
(* services/api.js: what the three provider functions resolve with.        *)

RoundDiv(a, b) == (2 * a + b) \div (2 * b)

\* average(arr), in hundredths, then Math.round(avg * 100) / 100
AverageHundredths(arr) ==
  IF arr = <<>> THEN 0 ELSE RoundDiv(100 * SeqSum(arr), Len(arr))

\* headers.find(h => h.toLowerCase().includes(...)) over the headers of the model
FindHeader(headers, matches) ==
  IF \E j \in 1..Len(headers) : headers[j] \in matches
  THEN headers[CHOOSE j \in 1..Len(headers) :
                 /\ headers[j] \in matches
                 /\ \A l \in 1..(j - 1) : headers[l] \notin matches]
  ELSE Undef

Count(s, v) == Cardinality({j \in 1..Len(s) : s[j] = v})

\* findMode(arr) after arr.filter(Boolean): the most frequent value, the
\* earliest such value on a tie (stable sort of the insertion-ordered counts)
FindMode(arr) ==
  LET truthy == {j \in 1..Len(arr) : arr[j] \notin {Undef, Null, ""}}
      cnt(j) == Cardinality({l \in truthy : arr[l] = arr[j]})
  IN IF truthy = {} THEN Null
     ELSE arr[CHOOSE j \in truthy :
                /\ \A l \in truthy : cnt(l) <= cnt(j)
                /\ \A l \in truthy : (l < j) => cnt(l) < cnt(j)]

computeKPIsFromData(data, headers) ==
  IF Len(data) = 0
  THEN [totalEquipment |-> 0, avgFlowrate |-> 0, avgTemperature |-> 0, dominantType |-> "--"]
  ELSE
    LET flowrateKey == FindHeader(headers, {"flowrate"})
        tempKey == FindHeader(headers, {LongHeader})
        typeKey == FindHeader(headers, {"type"})
        col(key) == [i \in 1..Len(data) |-> RowAtName(data[i], key)]
        nums(key) == [i \in 1..Len(data) |-> ParseFloatOrZero(RowAtName(data[i], key))]
        mode == FindMode(col(typeKey))
    IN [ totalEquipment |-> Len(data),
         avgFlowrate |-> IF flowrateKey # Undef THEN AverageHundredths(nums(flowrateKey)) ELSE 0,
         avgTemperature |-> IF tempKey # Undef THEN AverageHundredths(nums(tempKey)) ELSE 0,
         dominantType |-> IF typeKey # Undef /\ mode # Null THEN mode ELSE "--" ]

getDatasetSummary(response) ==
  LET preview == IF response.hasPreview THEN DataPreview(response) ELSE <<>>
      headers == IF response.hasColumns THEN Columns(response) ELSE <<>>
  IN [ kpis |-> computeKPIsFromData(preview, headers),
       previewData |-> preview,
       previewHeaders |-> headers ]

getAnalysis(response) ==
  LET orEmpty(s) == IF s.present THEN s ELSE EmptySeries
  IN [ chartData |->
         [ equipmentTypes |-> orEmpty(response.equipment_type_distribution),
           temperatureVsEquipment |-> orEmpty(response.temperature_by_equipment),
           pressureDistribution |-> orEmpty(response.pressure_distribution) ] ]

getDataset(response) == response

----------------------------------------------------------------------------
(* The jsPDF document and the layout cursor.                               *)
(*                                                                         *)
(* A document is its page count, its current page and the drawing calls    *)
(* made on it, in order.  `bands` and `lookups` record, for the data       *)
(* table, each data row laid out and each row key read; `marks` records    *)
(* the cursor at named points of the layout.                               *)
(* A layout state L is the document this.doc refers to, this.currentY, the *)
(* call that is drawing, and the exception thrown so far ("" for none).    *)

NewDoc == [pages |-> 1, cur |-> 1, ops |-> <<>>, bands |-> <<>>, lookups |-> {}, marks |-> <<>>]

\* One drawing call.  y is the vertical position passed to jsPDF and hn/hd
\* the height of a rectangle or line as a fraction (hd = 0: not a number);
\* for a bar (tag "bar") y is the bottom edge, the bar extending upwards,
\* and txt its fill colour.  xn/xd is the left edge and wn/xd the width of
\* a bar (0 for the other calls, whose horizontal position is not kept).
Op(L, op, tag, y, hn, hd, txt, i, j) ==
  [op |-> op, tag |-> tag, page |-> L.doc.cur, y |-> y, hn |-> hn, hd |-> hd,
   txt |-> txt, i |-> i, j |-> j, by |-> L.by, xn |-> 0, wn |-> 0, xd |-> 1]

TextOp(L, tag, y, txt, i, j) == Op(L, "text", tag, y, 0, 1, txt, i, j)

Emit(L, op, tag, y, hn, hd, txt, i, j) ==
  [L EXCEPT !.doc.ops = Append(@, Op(L, op, tag, y, hn, hd, txt, i, j))]

Text(L, tag, y, txt, i, j) == Emit(L, "text", tag, y, 0, 1, txt, i, j)

\* the drawing calls of a loop, in order
EmitAll(L, ops) == [L EXCEPT !.doc.ops = @ \o ops]

\* note the cursor
Mark(L, tag) ==
  [L EXCEPT !.doc.marks = Append(@, [tag |-> tag, page |-> L.doc.cur, y |-> L.y, by |-> L.by])]

Throw(L, name) == [L EXCEPT !.thrown = name]

\* this.currentY += dy and this.currentY = y
Advance(L, dy) == [L EXCEPT !.y = @ + dy]
SetY(L, y) == [L EXCEPT !.y = y]

\* a drawing call at the cursor plus dy
EmitAt(L, op, tag, dy, hn, hd, txt, i, j) == Emit(L, op, tag, L.y + dy, hn, hd, txt, i, j)
TextAt(L, tag, dy, txt, i, j) == Text(L, tag, L.y + dy, txt, i, j)

\* a statement that runs only if nothing was thrown before it
AdvanceOk(L, dy) == IF L.thrown # "" THEN L ELSE Advance(L, dy)
MarkOk(L, tag) == IF L.thrown # "" THEN L ELSE Mark(L, tag)

_drawHeader(L) ==
  LET L1 == TextAt(L, "header.title", 0, HeaderTitle, -1, -1)
      L2 == Advance(L1, Pt(36))
      L3 == EmitAt(L2, "line", "header.rule", 0, 0, 1, "", -1, -1)
      L4 == Advance(L3, config.md)
  IN Mark(L4, "header.end")

\* this.doc.addPage()
AddPage(L) ==
  Emit([L EXCEPT !.doc.pages = @ + 1, !.doc.cur = L.doc.pages + 1],
       "addPage", "page", 0, 0, 1, "", -1, -1)

\* _addNewPage without the reset of the cursor
_addNewPageKeepCursor(L) == _drawHeader(AddPage(L))

_addNewPage(L) == _drawHeader(SetY(AddPage(L), config.top))

_drawSectionTitle(L, title) ==
  LET L1 == TextAt(L, "section.title", 0, title, -1, -1)
      L2 == Advance(L1, Pt(8))
      L3 == EmitAt(L2, "line", "section.rule", 0, 0, 1, "", -1, -1)
  IN Advance(L3, config.md)

_drawSubsectionTitle(L, title) ==
  Advance(TextAt(L, "subsection.title", 0, title, -1, -1), Pt(16))

\* metadata.forEach, from the cursor after marginTop
MetadataItems(L, datasetInfo, summaryData) ==
  LET metadata ==
        << [label |-> "Generated", value |-> "<now>"],
           [label |-> "Dataset",
            value |-> IF datasetInfo.original_filename \in {Undef, Null, ""}
                      THEN "Unknown" ELSE datasetInfo.original_filename],
           [label |-> "Records", value |-> ToString(NumOrZero(datasetInfo.row_count))],
           [label |-> "Status",
            value |-> IF summaryData.kpis.totalEquipment > 0 THEN "Valid" ELSE "Unknown"] >>
      \* rowY advances by 20 after every second item
      rowY(idx) == L.y + Pt(20) * (idx \div 2)
      ops == [n \in 1..(2 * Len(metadata)) |->
                LET idx == (n - 1) \div 2
                IN IF n % 2 = 1
                   THEN TextOp(L, "meta.label", rowY(idx), metadata[idx + 1].label \o ":", idx, -1)
                   ELSE TextOp(L, "meta.value", rowY(idx), metadata[idx + 1].value, idx, -1)]
  IN SetY(EmitAll(L, ops), rowY(Len(metadata)) + config.metaBottom)

_drawMetadata(L, datasetInfo, summaryData) ==
  MetadataItems(Advance(L, config.metaTop), datasetInfo, summaryData)

\* (h / 100).toFixed(1) for a value h given in hundredths
ToFixed1(h) ==
  LET tenths == (h + 5) \div 10
  IN ToString(tenths \div 10) \o "." \o ToString(tenths % 10)

\* the items without the defaults
KpiItemsRaw(kpis) ==
  << [label |-> "Total Equipment", value |-> ToString(kpis.totalEquipment)],
     [label |-> "Avg Flowrate", value |-> ToFixed1(kpis.avgFlowrate) \o " m3/hr"],
     [label |-> "Avg Temperature", value |-> ToFixed1(kpis.avgTemperature) \o " C"],
     [label |-> "Dominant Type", value |-> JSString(kpis.dominantType)] >>

\* kpiItems: kpis.x || 0 for the numbers, kpis.dominantType || em dash
KpiItems(kpis) ==
  << [label |-> "Total Equipment", value |-> ToString(NumOrZero(kpis.totalEquipment))],
     [label |-> "Avg Flowrate", value |-> ToFixed1(NumOrZero(kpis.avgFlowrate)) \o " m3/hr"],
     [label |-> "Avg Temperature", value |-> ToFixed1(NumOrZero(kpis.avgTemperature)) \o " C"],
     [label |-> "Dominant Type",
      value |-> IF kpis.dominantType \in {Undef, Null, ""} THEN "--" ELSE kpis.dominantType] >>

\* kpiItems.forEach, from the cursor after the section title
KpiCards(L, kpis) ==
  LET ops == [n \in 1..(3 * Len(KpiItems(kpis))) |->
                LET idx == (n - 1) \div 3
                IN CASE n % 3 = 1 -> Op(L, "roundedRect", "kpi.card", L.y, Pt(60), 1, "", idx, -1)
                     [] n % 3 = 2 -> TextOp(L, "kpi.value", L.y + Pt(28),
                                            KpiItems(kpis)[idx + 1].value, idx, -1)
                     [] n % 3 = 0 -> TextOp(L, "kpi.label", L.y + Pt(45),
                                            KpiItems(kpis)[idx + 1].label, idx, -1)]
  IN Advance(EmitAll(L, ops), Pt(60) + config.summaryBottom)

_drawSummarySection(L, kpis) == KpiCards(_drawSectionTitle(L, SummaryTitle), kpis)

----------------------------------------------------------------------------
(* Charts *)

\* const chartWidth = (this.contentWidth - 20) / 2; the division is exact
\* for the page sizes and margins of Configs
ChartWidth == (gen.contentWidth - Pt(20)) \div 2

\* barWidth = Math.min(40, (width - 40) / barCount - 5), times barCount
BarWidth(width, barCount) ==
  Min(Pt(40) * barCount, width - Pt(40) - Pt(5) * barCount)

\* barX = x + 30 + idx * (barWidth + 5), times barCount
BarX(x, width, barCount, idx) ==
  (x + Pt(30)) * barCount + idx * (BarWidth(width, barCount) + Pt(5) * barCount)

\* values.forEach of _drawBarChart: for each value the bar, then its label.
\* Reading labels[idx] of an absent labels array throws a TypeError, after
\* the first bar has been drawn.
Bars(L, hasLabels, labels, values, color, y, chartHeight, x, width) ==
  LET bar(idx) == [Op(L, "roundedRect", "bar", y + chartHeight,
                      values[idx + 1] * chartHeight, SeqMax(values), color, idx, -1)
                   EXCEPT !.xn = BarX(x, width, Len(values), idx),
                          !.wn = BarWidth(width, Len(values)),
                          !.xd = Len(values)]
      label(idx) == Substring(JSString(IF idx < Len(labels) THEN labels[idx + 1] ELSE Undef), 8)
      ops == [n \in 1..(2 * Len(values)) |->
                LET idx == (n - 1) \div 2
                IN IF n % 2 = 1 THEN bar(idx)
                   ELSE TextOp(L, "bar.label", y + chartHeight + Pt(12), label(idx), idx, -1)]
  IN IF ~hasLabels THEN Throw(EmitAll(L, <<bar(0)>>), "TypeError")
     ELSE EmitAll(L, ops)

\* The two axis lines of _drawBarChart and this.currentY = y + height
Axes(L, y, height) ==
  IF L.thrown # "" THEN L
  ELSE SetY(Emit(Emit(L, "line", "axis.y", y, height - Pt(30), 1, "", -1, -1),
                 "line", "axis.x", y + height - Pt(30), 0, 1, "", -1, -1),
            y + height)

_drawBarChart(L, hasLabels, labels, hasValues, values, color, width, height, startX) ==
  IF ~hasValues \/ Len(values) = 0 THEN L
  ELSE Axes(Bars(L, hasLabels, labels, values, color, L.y, height - Pt(30),
                 IF startX = 0 THEN config.left ELSE startX, width),
            L.y, height)

\* series?.labels?.length > 0 and series?.data?.length > 0
HasLabels(series) == series.hasLabels /\ Len(series.labels) > 0
HasData(series) == series.hasData /\ Len(series.data) > 0

\* The Equipment Distribution chart of _drawChartsSection
EquipmentChart(L, series) ==
  IF HasLabels(series)
  THEN AdvanceOk(_drawBarChart(_drawSubsectionTitle(L, "Equipment Distribution by Type"),
                               series.hasLabels, series.labels,
                               series.hasData, series.data, Colors.equipment,
                               gen.contentWidth, Pt(160), 0),
                 Pt(20))
  ELSE L

\* no page check before the pair
ChartsPageCheckNever(L) == L

\* if (this.currentY > this.pageHeight - 250) this._addNewPage()
ChartsPageCheck(L) ==
  IF L.thrown = "" /\ L.y > gen.pageHeight - Pt(250) THEN _addNewPage(L) ELSE L

\* The Temperature Profile chart: labels.slice(0, 10) throws a TypeError
\* when the series has no labels array.
TemperatureChart(L, series) ==
  IF HasData(series)
  THEN IF ~series.hasLabels
       THEN Throw(_drawSubsectionTitle(L, "Temperature Profile"), "TypeError")
       ELSE _drawBarChart(_drawSubsectionTitle(L, "Temperature Profile"),
                          TRUE, Slice(series.labels, 10),
                          TRUE, Slice(series.data, 10), Colors.temperature,
                          ChartWidth, Pt(120), config.left)
  ELSE L

\* The Pressure Distribution chart, moved back up when the temperature
\* chart was drawn.
PressureChart(L, series, tempDrawn) ==
  IF L.thrown = "" /\ HasData(series)
  THEN LET L1 == Advance(L, IF tempDrawn THEN -Pt(140) ELSE 0)
           L2 == TextAt(L1, "pressure.title", 0, "Pressure Distribution", -1, -1)
           L3 == Advance(L2, Pt(16))
       IN _drawBarChart(L3, series.hasLabels, series.labels,
                        series.hasData, series.data, Colors.pressure,
                        ChartWidth, Pt(120), config.left + ChartWidth + Pt(20))
  ELSE L

\* The cursor and document after the side-by-side pair, before marginBottom
ChartsPair(L, chartData) ==
  LET L1 == TemperatureChart(Mark(L, "pair.start"), chartData.temperatureVsEquipment)
      L2 == PressureChart(L1, chartData.pressureDistribution,
                          HasData(chartData.temperatureVsEquipment))
  IN MarkOk(L2, "pair.end")

\* The layout state at which the pair starts
ChartsBeforePair(L, chartData) ==
  ChartsPageCheck(EquipmentChart(_drawSectionTitle(L, ChartsTitle), chartData.equipmentTypes))

_drawChartsSection(L, chartData) ==
  IF L.thrown # "" THEN L
  ELSE AdvanceOk(ChartsPair(ChartsBeforePair(L, chartData), chartData), config.chartsBottom)

----------------------------------------------------------------------------
(* Data table *)

\* row[header] ?? row[colIdx] ?? '' : the value and the keys it reads
CellValue(row, header, colIdx) ==
  Nullish(RowAtName(row, header), Nullish(RowAtIndex(row, colIdx), ""))

CellLookups(row, header, colIdx) ==
  {[kind |-> "name", name |-> header, idx |-> -1]}
  \cup (IF RowAtName(row, header) \in {Undef, Null}
        THEN {[kind |-> "index", name |-> "", idx |-> colIdx]} ELSE {})

\* tableConfig.style.rowHeight || 20
RowHeight == IF config.rowHeight = 0 THEN Pt(20) ELSE config.rowHeight

\* The header band and displayHeaders.forEach of the header row
HeaderCells(L, displayHeaders, rowHeight) ==
  EmitAll(L, <<Op(L, "rect", "table.head", L.y, rowHeight, 1, "", -1, -1)>>
             \o [n \in 1..Len(displayHeaders) |->
                   TextOp(L, "table.headcell", L.y + Pt(14),
                          Substring(JSString(displayHeaders[n]), 15), -1, n - 1)])

\* One data row: zebra band, then displayHeaders.forEach
RowCells(L, row, rowIdx, displayHeaders, rowHeight) ==
  [EmitAll(L, (IF rowIdx % 2 = 1
               THEN <<Op(L, "rect", "table.zebra", L.y, rowHeight, 1, "", rowIdx, -1)>>
               ELSE <<>>)
              \o [n \in 1..Len(displayHeaders) |->
                    TextOp(L, "table.cell", L.y + Pt(14),
                           Substring(JSString(CellValue(row, displayHeaders[n], n - 1)), 12),
                           rowIdx, n - 1)])
   EXCEPT !.doc.bands = Append(@, [i |-> rowIdx, page |-> L.doc.cur, y |-> L.y, by |-> L.by]),
          !.doc.lookups = @ \cup UNION {CellLookups(row, displayHeaders[n], n - 1) :
                                          n \in 1..Len(displayHeaders)}]

\* no page break
TablePageCheckNever(L) == L

\* a page break that repeats the column-title band on the new page
TablePageCheckRepeat(L) ==
  IF L.y > gen.pageHeight - config.bottom - Pt(50)
  THEN Advance(HeaderCells(_addNewPage(L), <<>>, RowHeight), RowHeight)
  ELSE L

\* if (this.currentY > this.pageHeight - margin.bottom - 50) this._addNewPage()
TablePageCheck(L) ==
  IF L.y > gen.pageHeight - config.bottom - Pt(50) THEN _addNewPage(L) ELSE L

\* displayData.forEach over the rows lo..hi-1 (0-based), in order: the row,
\* advance, page break.  The range is halved so that the evaluation nests
\* only logarithmically deep.
RECURSIVE DataRows(_, _, _, _, _, _)
DataRows(L, displayData, displayHeaders, rowHeight, lo, hi) ==
  IF L.thrown # "" \/ lo >= hi THEN L
  ELSE IF hi = lo + 1
       THEN TablePageCheck(Advance(RowCells(L, displayData[lo + 1], lo,
                                            displayHeaders, rowHeight),
                                   rowHeight))
       ELSE DataRows(DataRows(L, displayData, displayHeaders, rowHeight, lo, (lo + hi) \div 2),
                     displayData, displayHeaders, rowHeight, (lo + hi) \div 2, hi)

\* the rows without the slice
DisplayDataAll(data) == data

\* data.slice(0, tableConfig.maxRows)
DisplayData(data) == Slice(data, config.maxRows)

\* the headers without the slice
DisplayHeadersAll(headers) == headers

\* headers.slice(0, 6)
DisplayHeaders(headers) == Slice(headers, 6)

\* The border of the table and, for a truncated preview, the notice
TableEnd(L, data, tableHeight) ==
  IF Len(data) > config.maxRows
  THEN TextAt(Advance(Emit(L, "rect", "table.border", L.y - tableHeight, tableHeight,
                           1, "", -1, -1),
                      Pt(10)),
              "table.notice", 0,
              "Showing first " \o ToString(config.maxRows) \o " of "
                \o ToString(Len(data)) \o " records.", -1, -1)
  ELSE Emit(L, "rect", "table.border", L.y - tableHeight, tableHeight, 1, "", -1, -1)

\* _drawDataTable from the cursor after the section title
TableBody(L, data, headers) ==
  IF Len(data) = 0
  THEN TextAt(L, "table.empty", 0, "No data available.", -1, -1)
  ELSE TableEnd(DataRows(Advance(HeaderCells(L, DisplayHeaders(headers), RowHeight), RowHeight),
                         DisplayData(data), DisplayHeaders(headers), RowHeight,
                         0, Len(DisplayData(data))),
                data, (Len(DisplayData(data)) + 1) * RowHeight)

_drawDataTable(L, data, headers) == TableBody(_drawSectionTitle(L, TableTitle), data, headers)

----------------------------------------------------------------------------
(* Footer *)

\* a footer on the current page only
_drawFooterCurrentPage(L) ==
  LET footerY == gen.pageHeight - config.bottom + Pt(10)
      i == L.doc.cur
      pageCount == L.doc.pages
  IN EmitAll(L, << Op(L, "line", "footer.rule", footerY, 0, 1, "", i, pageCount),
                   TextOp(L, "footer.left", footerY + Pt(15), "Generated by CHEM*VIZ", i, pageCount),
                   TextOp(L, "footer.center", footerY + Pt(15),
                          "Page " \o ToString(i) \o " of " \o ToString(pageCount), i, pageCount),
                   TextOp(L, "footer.right", footerY + Pt(15), "<today>", i, pageCount) >>)

\* The loop over the pages: setPage(i), then the rule and the three texts
_drawFooter(L) ==
  LET pageCount == L.doc.pages
      footerY == gen.pageHeight - config.bottom + Pt(10)
      ops == [n \in 1..(4 * pageCount) |->
                LET i == (n - 1) \div 4 + 1
                    Li == [L EXCEPT !.doc.cur = i]
                IN CASE n % 4 = 1 -> Op(Li, "line", "footer.rule", footerY, 0, 1, "", i, pageCount)
                     [] n % 4 = 2 -> TextOp(Li, "footer.left", footerY + Pt(15),
                                            "Generated by CHEM*VIZ", i, pageCount)
                     [] n % 4 = 3 -> TextOp(Li, "footer.center", footerY + Pt(15),
                                            "Page " \o ToString(i) \o " of " \o ToString(pageCount),
                                            i, pageCount)
                     [] n % 4 = 0 -> TextOp(Li, "footer.right", footerY + Pt(15), "<today>",
                                            i, pageCount)]
  IN [EmitAll(L, ops) EXCEPT !.doc.cur = IF pageCount >= 1 THEN pageCount ELSE @]

----------------------------------------------------------------------------
(* generate(), from the resumption after Promise.all to the return *)

\* The statements of generate after the charts section; a section that
\* threw ends generate.
AfterCharts(L, summaryData) ==
  IF L.thrown # "" THEN L
  ELSE _drawFooter(_drawDataTable(_addNewPage(L),
                                  summaryData.previewData, summaryData.previewHeaders))

BuildSections(L, datasetInfo, summaryData, analysisData) ==
  LET L1 == _drawHeader(L)
      L2 == _drawMetadata(L1, datasetInfo, summaryData)
      L3 == _drawSummarySection(L2, summaryData.kpis)
      L4 == _drawChartsSection(L3, analysisData.chartData)
  IN AfterCharts(L4, summaryData)

----------------------------------------------------------------------------
(* State                                                                   *)
(*   config   PDF_REPORT_CONFIG                                            *)
(*   gen      the fields of the singleton pdfGenerator (doc: index into    *)
(*            docs, 0 for null)                                            *)
(*   docs     the jsPDF documents created so far                           *)
(*   pc, ds   per call of generate: where it is, and its datasetId         *)
(*   fetch    per call and provider function: the state of its promise     *)
(*   fetched  per call: the responses its requests have received           *)
(*   result   per call: how the promise of generate settled                *)
(*   mydoc    per call: the document the call created                      *)
(*   arg      the method of the generator called last on its own, and its  *)
(*            argument (SpecSections)                                      *)
(*   auth     the module state of authService                              *)
(*   app      the state of the App component                               *)
(*   view     the state of AnalysisCharts and of SummaryScreen             *)
(*   upload   the state of the CSVUpload component                         *)
(* The result of a call that returned a blob names the document it         *)
(* serialised and how many pages and drawing calls it held then.           *)


NoError == [name |-> "", status |-> 0, from |-> ""]
NoResult == [kind |-> "none", doc |-> 0, pages |-> 0, nops |-> 0, error |-> NoError]

NoFetched ==
  [ dataset |-> [original_filename |-> Undef, row_count |-> NoNum, validationStatus |-> Undef],
    summary |-> DetailResponse(FALSE, 0, "object", FALSE, 0),
    analysis |-> [equipment_type_distribution |-> SeriesAbsent,
                  temperature_by_equipment |-> SeriesAbsent,
                  pressure_distribution |-> SeriesAbsent] ]

NoKpis == [totalEquipment |-> 0, avgFlowrate |-> 0, avgTemperature |-> 0, dominantType |-> ""]
NoArg == [method |-> "", kpis |-> NoKpis]

----------------------------------------------------------------------------
(* services/authService.js                                                 *)
(*                                                                         *)
(* auth holds the module state of the service: currentToken, currentUser,  *)
(* the two localStorage entries, the listeners in the order they were      *)
(* added, for every listener the notifications it received (`log`), and    *)
(* the calls of login, register and logout made so far (`calls`).          *)

TOKEN_KEY == "chemviz_auth_token"
USER_KEY == "chemviz_user"

\* { id: data.user_id, username: data.username }; NullUser stands for null
Users == {[id |-> 1, username |-> "ada"], [id |-> 2, username |-> "bob"]}
NullUser == [id |-> 0, username |-> Null]

\* the body of a successful login or register response
Sessions ==
  { [token |-> "t1", user |-> [id |-> 1, username |-> "ada"]],
    [token |-> "t2", user |-> [id |-> 2, username |-> "bob"]] }

\* JSON.stringify(user) and JSON.parse(userJson); parsing throws on a
\* string that is not JSON
JSONStringify(user) ==
  IF user.id = 1 THEN "{id:1,username:ada}" ELSE "{id:2,username:bob}"
IsJSON(json) == \E u \in Users : JSONStringify(u) = json
JSONParse(json) == CHOOSE u \in Users : JSONStringify(u) = json

\* the listeners of the model; a notified Thrower throws
Listeners == {"app", "thrower"}
ListenerThrows(l) == l = "thrower"

EmptyStorage == [k \in {TOKEN_KEY, USER_KEY} |-> Null]
StorageOf(session) ==
  [k \in {TOKEN_KEY, USER_KEY} |->
     IF k = TOKEN_KEY THEN session.token ELSE JSONStringify(session.user)]

\* what localStorage may hold when the module is loaded: nothing, a
\* session, or a token with a user entry that does not parse
Storages ==
  {EmptyStorage} \cup {StorageOf(s) : s \in Sessions}
  \cup {[StorageOf(s) EXCEPT ![USER_KEY] = "{"] : s \in Sessions}

\* clearAuthState()
clearAuthState(a) ==
  [a EXCEPT !.currentToken = Null, !.currentUser = NullUser,
            !.localStorage = EmptyStorage]

\* initAuthState(), run when the module is loaded
initAuthState(storage) ==
  LET a == [ currentToken |-> storage[TOKEN_KEY], currentUser |-> NullUser,
             localStorage |-> storage, listeners |-> <<>>,
             log |-> [l \in Listeners |-> <<>>], calls |-> <<>> ]
  IN IF storage[USER_KEY] \in {Null, ""} THEN a
     ELSE IF IsJSON(storage[USER_KEY])
          THEN [a EXCEPT !.currentUser = JSONParse(storage[USER_KEY])]
          ELSE clearAuthState(a)

\* saveAuthState that does not write localStorage
saveAuthStateInMemory(a, token, user) ==
  [a EXCEPT !.currentToken = token, !.currentUser = user]

\* saveAuthState(token, user)
saveAuthState(a, token, user) ==
  [a EXCEPT !.currentToken = token, !.currentUser = user,
            !.localStorage =
               [k \in {TOKEN_KEY, USER_KEY} |->
                  IF k = TOKEN_KEY /\ token \notin {Null, ""} THEN token
                  ELSE IF k = USER_KEY /\ user # NullUser THEN JSONStringify(user)
                  ELSE a.localStorage[k]]]

\* the listeners, in order, up to the first one that throws
UpToThrower(listeners) ==
  IF \E i \in DOMAIN listeners : ListenerThrows(listeners[i])
  THEN SubSeq(listeners, 1, CHOOSE i \in DOMAIN listeners :
                               /\ ListenerThrows(listeners[i])
                               /\ \A j \in 1..(i - 1) : ~ListenerThrows(listeners[j]))
  ELSE listeners

\* what a listener is called with, and the call k that notified
Notification(a, k) == [user |-> a.currentUser, token |-> a.currentToken, by |-> k]

\* notifyListeners without the try/catch around each listener
notifyListenersUnguarded(a, k) ==
  [a EXCEPT !.log = [l \in Listeners |->
                       IF \E i \in DOMAIN UpToThrower(a.listeners) : a.listeners[i] = l
                       THEN Append(a.log[l], Notification(a, k)) ELSE a.log[l]]]

\* notifyListeners(): every listener is called, what one throws is caught
notifyListeners(a, k) ==
  [a EXCEPT !.log = [l \in Listeners |->
                       IF \E i \in DOMAIN a.listeners : a.listeners[i] = l
                       THEN Append(a.log[l], Notification(a, k)) ELSE a.log[l]]]

\* subscribe(listener) and the function it returns; listeners is a Set
subscribe(a, l) ==
  IF \E i \in DOMAIN a.listeners : a.listeners[i] = l THEN a
  ELSE [a EXCEPT !.listeners = Append(@, l)]
unsubscribe(a, l) ==
  [a EXCEPT !.listeners = SelectSeq(@, LAMBDA x : x # l)]

\* authRequest: how the request of a call ends.  "ok" is a response with
\* response.ok, "status" one without (an AuthError with the HTTP status),
\* "network" a failed fetch or a body that is not JSON (an AuthError with
\* status 0).
Outcomes == {"ok", "status", "network"}

AuthKinds == {"login", "register", "logout"}

\* login(), register() and logout() up to the await of authRequest
authCall(a, kind) ==
  [a EXCEPT !.calls = Append(@, [kind |-> kind, pc |-> "pending", outcome |-> "",
                                 error |-> NoError])]

\* the call k with its promise settled
settle(a, k, outcome) ==
  [a EXCEPT !.calls[k].outcome = outcome,
            !.calls[k].pc = IF outcome = "ok" \/ a.calls[k].kind = "logout"
                            THEN "resolved" ELSE "rejected",
            !.calls[k].error =
               IF outcome = "ok" \/ a.calls[k].kind = "logout" THEN NoError
               ELSE [name |-> "AuthError", status |-> IF outcome = "status" THEN 401 ELSE 0,
                     from |-> a.calls[k].kind]]

\* login() and register() after the await: saveAuthState and
\* notifyListeners on success, the AuthError of authRequest otherwise
loginAfter(a, k, outcome, data) ==
  IF outcome = "ok"
  THEN notifyListeners(saveAuthState(settle(a, k, outcome), data.token, data.user), k)
  ELSE settle(a, k, outcome)

\* logout() after the await: the error of authRequest is caught
logoutAfter(a, k, outcome) ==
  notifyListeners(clearAuthState(settle(a, k, outcome)), k)

\* the service after the request of call k ended
authAfter(a, k, outcome, data) ==
  IF a.calls[k].kind = "logout" THEN logoutAfter(a, k, outcome)
  ELSE loginAfter(a, k, outcome, data)

----------------------------------------------------------------------------
(* App (App.jsx)                                                           *)
(*                                                                         *)
(* app holds the state of the App component: activeScreen, the datasetId   *)
(* of uploadedData, recentDatasets (the ids of the history entries),       *)
(* isAuthenticated, pendingClaimDatasetRef.current, the requests it has    *)
(* sent through getRecentDatasets and claimDataset, and the number of      *)
(* uploads reported to it.  A request keeps the token it was sent with     *)
(* and, for the history reload issued after a claim, that claim (`after`). *)

DatasetIds == {"d1", "d2"}

\* what GET /history/ answers with: the ids of response.datasets
Histories == {<<>>, <<"d1">>}

NewApp(a) ==
  [ activeScreen |-> "upload", uploadedData |-> Null, recentDatasets |-> <<>>,
    isAuthenticated |-> a.currentToken \notin {Null, ""},
    pendingClaimDatasetRef |-> Null, requests |-> <<>>, uploads |-> 0 ]

\* authService.isAuthenticated()
isAuthenticated(a) == a.currentToken \notin {Null, ""}

Request(kind, a, dataset, after) ==
  [kind |-> kind, pc |-> "pending", token |-> a.currentToken, dataset |-> dataset,
   after |-> after]

\* loadHistory() up to the await of getRecentDatasets; `after` is the claim
\* request the auth listener awaited before it, 0 for none
loadHistory(ap, a, after) ==
  IF ~isAuthenticated(a) THEN [ap EXCEPT !.recentDatasets = <<>>]
  ELSE [ap EXCEPT !.requests = Append(@, Request("history", a, Null, after))]

\* loadHistory() after the await: the formatted datasets, or [] on failure
loadHistoryAfter(ap, r, ok, datasets) ==
  [ap EXCEPT !.requests[r].pc = IF ok THEN "resolved" ELSE "rejected",
             !.recentDatasets = IF ok THEN datasets ELSE <<>>]

\* the listener of the auth subscription that leaves the pending reference
\* in place when it claims
onAuthChangeKeepPending(ap, a) ==
  IF isAuthenticated(a)
  THEN IF ap.pendingClaimDatasetRef # Null
       THEN [ap EXCEPT !.isAuthenticated = TRUE,
                       !.requests = Append(@, Request("claim", a, ap.pendingClaimDatasetRef, 0))]
       ELSE loadHistory([ap EXCEPT !.isAuthenticated = TRUE], a, 0)
  ELSE [ap EXCEPT !.isAuthenticated = FALSE, !.recentDatasets = <<>>,
                  !.uploadedData = Null, !.activeScreen = "upload"]

\* the listener passed to authService.subscribe, up to its first await:
\* called by notifyListeners with the service's user and token
onAuthChange(ap, a) ==
  IF isAuthenticated(a)
  THEN IF ap.pendingClaimDatasetRef # Null
       THEN [ap EXCEPT !.isAuthenticated = TRUE,
                       !.pendingClaimDatasetRef = Null,
                       !.requests = Append(@, Request("claim", a, ap.pendingClaimDatasetRef, 0))]
       ELSE loadHistory([ap EXCEPT !.isAuthenticated = TRUE], a, 0)
  ELSE [ap EXCEPT !.isAuthenticated = FALSE, !.recentDatasets = <<>>,
                  !.uploadedData = Null, !.activeScreen = "upload"]

\* the listener after the await of claimDataset, whether it resolved or
\* rejected: loadHistory()
onAuthChangeAfter(ap, a, r, ok) ==
  loadHistory([ap EXCEPT !.requests[r].pc = IF ok THEN "resolved" ELSE "rejected"], a, r)

\* handleUploadComplete(data) with data.datasetId = datasetId
handleUploadComplete(ap, a, datasetId) ==
  [loadHistory([ap EXCEPT !.uploadedData = datasetId,
                          !.uploads = @ + 1,
                          !.pendingClaimDatasetRef =
                             IF ~isAuthenticated(a) THEN datasetId ELSE @],
               a, 0)
   EXCEPT !.activeScreen = "summary"]

----------------------------------------------------------------------------
(* AnalysisCharts (Charts.jsx) and SummaryScreen (SummaryScreen.jsx)       *)
(*                                                                         *)
(* view holds, for each of the two components, whether it is mounted and   *)
(* as which instance, the datasetId it is rendered with, the dataset whose *)
(* response it shows (chartData, or kpiData with the preview; Null for the *)
(* initial empty data), loading, error, and the requests its instances     *)
(* have sent through getAnalysis or getDatasetSummary.                     *)

Components == {"AnalysisCharts", "SummaryScreen"}

Unmounted ==
  [ mounted |-> FALSE, instance |-> 0, datasetId |-> Null, data |-> Null,
    loading |-> FALSE, error |-> Null, requests |-> <<>> ]

NewView == [c \in Components |-> Unmounted]

\* fetchAnalysis(id) / fetchSummary(datasetId) up to the await
fetchData(v, id) ==
  IF id = Null THEN [v EXCEPT !.error = "No dataset selected"]
  ELSE [v EXCEPT !.loading = TRUE, !.error = Null,
                 !.requests = Append(@, [id |-> id, pc |-> "pending", instance |-> v.instance])]

\* the effect on [datasetId]: if (datasetId) fetch(datasetId)
datasetEffect(v) == IF v.datasetId # Null THEN fetchData(v, v.datasetId) ELSE v

\* first render of the component with this datasetId, and its effect
mount(v, id) ==
  datasetEffect([Unmounted EXCEPT !.mounted = TRUE, !.instance = v.instance + 1,
                                  !.datasetId = id, !.requests = v.requests])

\* re-render with another datasetId, and its effect
rerender(v, id) ==
  IF id = v.datasetId THEN v ELSE datasetEffect([v EXCEPT !.datasetId = id])

\* the component leaves the screen; its state is dropped
unmount(v) == [Unmounted EXCEPT !.instance = v.instance, !.requests = v.requests]

\* fetchAnalysis / fetchSummary after the await: the state setters act on
\* the instance that sent the request, if it is still mounted
fetchDataAfter(v, r, ok) ==
  IF ~v.mounted \/ v.requests[r].instance # v.instance
  THEN [v EXCEPT !.requests[r].pc = IF ok THEN "resolved" ELSE "rejected"]
  ELSE [v EXCEPT !.requests[r].pc = IF ok THEN "resolved" ELSE "rejected",
                 !.data = IF ok THEN v.requests[r].id ELSE @,
                 !.error = IF ok THEN @ ELSE "Failed to load",
                 !.loading = FALSE]

\* handleRetry
handleRetryFetch(v) == datasetEffect(v)

----------------------------------------------------------------------------
(* CSVUpload                                                               *)
(*                                                                         *)
(* upload holds the state of the component: uploadState, uploadData (the   *)
(* name of the uploaded file, NoFile for null), error, fileRef.current,    *)
(* and the uploadCSV requests sent, each with its file and the handler     *)
(* that sent it.  A file is its name, a sequence of characters.            *)

NoFile == <<>>
CsvSuffix == <<".", "c", "s", "v">>
FileA == <<"a">> \o CsvSuffix
FileB == <<"b">> \o CsvSuffix
Files == {NoFile, FileA, FileB, <<"a", ".", "t", "x", "t">>, <<"a", ".", "C", "S", "V">>,
          <<"c", "s", "v">>}

\* file.name.endsWith(suffix)
EndsWith(name, suffix) ==
  /\ Len(name) >= Len(suffix)
  /\ SubSeq(name, Len(name) - Len(suffix) + 1, Len(name)) = suffix

NewUpload ==
  [uploadState |-> "idle", uploadData |-> NoFile, error |-> Null, fileRef |-> NoFile,
   requests |-> <<>>]

\* processFile(file) up to the await of uploadCSV
processFile(u, file, via) ==
  IF file = NoFile THEN u
  ELSE IF ~EndsWith(file, CsvSuffix)
       THEN [u EXCEPT !.error = "Please upload a CSV file", !.uploadState = "error"]
       ELSE [u EXCEPT !.fileRef = file, !.uploadState = "uploading", !.error = Null,
                      !.requests = Append(@, [file |-> file, pc |-> "pending", via |-> via])]

\* processFile after the await
processFileAfter(u, r, ok) ==
  IF ok
  THEN [u EXCEPT !.requests[r].pc = "resolved", !.uploadData = u.requests[r].file,
                 !.uploadState = "success"]
  ELSE [u EXCEPT !.requests[r].pc = "rejected", !.error = "Upload failed",
                 !.uploadState = "error"]

\* handleClear
handleClear(u) ==
  [u EXCEPT !.uploadData = NoFile, !.error = Null, !.uploadState = "idle", !.fileRef = NoFile]

\* the summary card is rendered instead of the upload zone
ShowsCard(u) == u.uploadState = "success" /\ u.uploadData # NoFile

----------------------------------------------------------------------------
(* The generator as a state machine *)

\* constructor()
NewGenerator == [doc |-> 0, pageWidth |-> 0, pageHeight |-> 0, contentWidth |-> 0, currentY |-> 0]

InitWith(configs) ==
  /\ config \in configs
  /\ gen = NewGenerator
  /\ docs = <<>>
  /\ pc = [c \in Calls |-> "idle"]
  /\ ds = [c \in Calls |-> ""]
  /\ fetch = [c \in Calls |-> [k \in Fetches |-> "none"]]
  /\ fetched = [c \in Calls |-> NoFetched]
  /\ result = [c \in Calls |-> NoResult]
  /\ mydoc = [c \in Calls |-> 0]
  /\ arg = NoArg
  /\ auth = initAuthState(EmptyStorage)
  /\ app = NewApp(initAuthState(EmptyStorage))
  /\ view = NewView
  /\ upload = NewUpload

\* generate that leaves the cursor where the last call left it
StartKeepCursor(c, d) ==
  /\ pc[c] = "idle"
  /\ \A c2 \in Calls : c2 < c => pc[c2] # "idle"
  /\ docs' = Append(docs, NewDoc)
  /\ gen' = [ doc |-> Len(docs) + 1,
              pageWidth |-> PageWidthOf(config.size),
              pageHeight |-> PageHeightOf(config.size),
              contentWidth |-> PageWidthOf(config.size) - config.left - config.right,
              currentY |-> gen.currentY ]
  /\ pc' = [pc EXCEPT ![c] = "fetching"]
  /\ ds' = [ds EXCEPT ![c] = d]
  /\ fetch' = [fetch EXCEPT ![c] = [k \in Fetches |-> "pending"]]
  /\ mydoc' = [mydoc EXCEPT ![c] = Len(docs) + 1]
  /\ UNCHANGED <<config, arg, auth, app, view, upload, fetched, result>>

\* generate(datasetId) up to the await: a new document, the page
\* dimensions, the cursor at the top margin, and the three requests sent.
Start(c, d) ==
  /\ pc[c] = "idle"
  /\ \A c2 \in Calls : c2 < c => pc[c2] # "idle"
  /\ docs' = Append(docs, NewDoc)
  /\ gen' = [ doc |-> Len(docs) + 1,
              pageWidth |-> PageWidthOf(config.size),
              pageHeight |-> PageHeightOf(config.size),
              contentWidth |-> PageWidthOf(config.size) - config.left - config.right,
              currentY |-> config.top ]
  /\ pc' = [pc EXCEPT ![c] = "fetching"]
  /\ ds' = [ds EXCEPT ![c] = d]
  /\ fetch' = [fetch EXCEPT ![c] = [k \in Fetches |-> "pending"]]
  /\ mydoc' = [mydoc EXCEPT ![c] = Len(docs) + 1]
  /\ UNCHANGED <<config, arg, auth, app, view, upload, fetched, result>>

\* resuming at the first response
AllResolvedFirst(c, k) == pc[c] = "fetching"

\* Promise.all has resolved for call c once k, the last of its three
\* requests, resolves while generate is still waiting.
AllResolved(c, k) ==
  /\ pc[c] = "fetching"
  /\ \A k2 \in Fetches \ {k} : fetch[c][k2] = "resolved"

\* The layout a call produces when it resumes with the responses f on the
\* document doc with the cursor at y: every section in turn.
Layout(c, f, doc, y) ==
  BuildSections([doc |-> doc, y |-> y, by |-> c, thrown |-> ""],
                getDataset(f.dataset), getDatasetSummary(f.summary), getAnalysis(f.analysis))

\* generate() resumes: the sections are drawn on the document this.doc
\* refers to now, from the cursor this.currentY holds now.
Resume(c, f) == Layout(c, f, docs[gen.doc], gen.currentY)

\* The document a settled call returned: doc.output('blob') at that time
Payload(c) ==
  [ pages |-> result[c].pages,
    ops |-> SubSeq(docs[result[c].doc].ops, 1, result[c].nops) ]

\* generate() ends with the layout L: the blob of the document, or the
\* rejection with what a section threw.
Settle(c, L) ==
  /\ docs' = [docs EXCEPT ![gen.doc] = L.doc]
  /\ gen' = [gen EXCEPT !.currentY = L.y]
  /\ pc' = [pc EXCEPT ![c] = IF L.thrown = "" THEN "done" ELSE "threw"]
  /\ result' = [result EXCEPT ![c] =
                  IF L.thrown = ""
                  THEN [kind |-> "blob", doc |-> gen.doc, pages |-> L.doc.pages,
                        nops |-> Len(L.doc.ops), error |-> NoError]
                  ELSE [NoResult EXCEPT !.kind = "error",
                          !.error = [name |-> L.thrown, status |-> 0, from |-> "layout"]]]

\* A request of call c gets the response resp.  When it is the last of the
\* three, generate resumes in the same turn: it draws every section and
\* returns the blob, or rejects with what a section threw.  A response
\* that arrives after generate has rejected is dropped ("dropped").
Resolve(c, k, resp) ==
  /\ fetch[c][k] = "pending"
  /\ fetch' = [fetch EXCEPT ![c][k] = IF pc[c] = "fetching" THEN "resolved" ELSE "dropped"]
  /\ fetched' = IF pc[c] = "fetching" THEN [fetched EXCEPT ![c][k] = resp] ELSE fetched
  /\ IF AllResolved(c, k)
     THEN Settle(c, Resume(c, [fetched[c] EXCEPT ![k] = resp]))
     ELSE UNCHANGED <<docs, gen, pc, result>>
  /\ UNCHANGED <<config, arg, auth, app, view, upload, ds, mydoc>>

\* a failure that does not settle generate
RejectKeepWaiting(c, k, status) ==
  /\ fetch[c][k] = "pending"
  /\ fetch' = [fetch EXCEPT ![c][k] = "rejected"]
  /\ UNCHANGED <<config, arg, auth, app, view, upload, gen, docs, pc, ds, fetched, result, mydoc>>

\* A request of call c fails: request() throws an APIError.  Promise.all
\* rejects with the first rejection, and generate with it; the responses
\* received so far are dropped, and so is a later failure.
Reject(c, k, status) ==
  /\ fetch[c][k] = "pending"
  /\ fetch' = [fetch EXCEPT ![c][k] = IF pc[c] = "fetching" THEN "rejected" ELSE "dropped"]
  /\ IF pc[c] = "fetching"
     THEN /\ pc' = [pc EXCEPT ![c] = "rejected"]
          /\ result' = [result EXCEPT ![c] =
                          [NoResult EXCEPT !.kind = "error", !.error = APIError(status, k)]]
          /\ fetched' = [fetched EXCEPT ![c] = NoFetched]
     ELSE UNCHANGED <<pc, result, fetched>>
  /\ UNCHANGED <<config, arg, auth, app, view, upload, gen, docs, ds, mydoc>>

\* The responses a request can get, for dataset d
Responses(k, d) ==
  CASE k = "dataset" -> InfoResponses(d)
    [] k = "summary" -> DetailResponses
    [] k = "analysis" -> AnalysisResponses

AnalysisOf(e, t, p) ==
  [equipment_type_distribution |-> e, temperature_by_equipment |-> t, pressure_distribution |-> p]

\* A few of them, for the runs with several calls
FewResponses(k, d) ==
  CASE k = "dataset" -> {BaseInfo(d)}
    [] k = "summary" -> {DetailResponse(TRUE, 1, "object", TRUE, 1)}
    [] k = "analysis" -> {AnalysisOf(SeriesAbsent, OneBarSeries, OneBarSeries)}

\* Plain responses: in the runs of one call, each response is combined
\* with plain ones for the other two requests.
PlainResponses(k, d) ==
  CASE k = "dataset" -> {BaseInfo(d)}
    [] k = "summary" -> {DetailResponse(TRUE, 4, "object", TRUE, 6),
                          DetailResponse(TRUE, 0, "object", TRUE, 6)}
    [] k = "analysis" -> {AnalysisOf(FullSeries, FullSeries, FullSeries),
                           AnalysisOf(SeriesAbsent, SeriesAbsent, SeriesAbsent)}

Combined(c, k, resp) ==
  Cardinality({k2 \in Fetches :
                 \/ k2 = k /\ resp \notin PlainResponses(k2, ds[c])
                 \/ /\ k2 # k
                    /\ fetch[c][k2] = "resolved"
                    /\ fetched[c][k2] \notin PlainResponses(k2, ds[c])}) <= 1

----------------------------------------------------------------------------
(* Spec: calls of generatePDFBlob on the singleton, which may overlap.     *)

Init == InitWith({DefaultConfig})

\* Datasets are named in the order of their first request.
Generate(c) ==
  \E d \in Datasets :
    /\ d = "a" \/ \E c2 \in Calls : ds[c2] = "a"
    /\ Start(c, d)

FetchResolve(c) == \E k \in Fetches : \E resp \in FewResponses(k, ds[c]) : Resolve(c, k, resp)

FetchReject(c) == \E k \in Fetches : \E status \in {0} : Reject(c, k, status)

Next == \E c \in Calls : Generate(c) \/ FetchResolve(c) \/ FetchReject(c)

Spec == Init /\ [][Next]_vars

(* SpecLayout: one call of generate, for every configuration and every     *)
(* response of the backend.                                                *)

InitLayout == InitWith(Configs)

GenerateOne == Start(1, "a")

FetchResolveAny ==
  \E k \in Fetches : \E resp \in Responses(k, ds[1]) :
    /\ pc[1] = "fetching" => Combined(1, k, resp)
    /\ Resolve(1, k, resp)

FetchRejectAny == \E k \in Fetches : \E status \in Statuses : Reject(1, k, status)

NextLayout == GenerateOne \/ FetchResolveAny \/ FetchRejectAny

SpecLayout == InitLayout /\ [][NextLayout]_vars

(* SpecSequential: calls of generatePDFBlob one after the other, each       *)
(* started once the call before it has settled.                            *)

Settled == {"done", "threw", "rejected"}

GenerateNext(c) ==
  \E d \in Datasets :
    /\ \A c2 \in Calls : c2 < c => pc[c2] \in Settled
    /\ Start(c, d)

\* the responses of the runs of several calls and an analysis whose
\* temperature series makes the layout throw
SequentialResponses(k, d) ==
  IF k = "analysis"
  THEN FewResponses(k, d) \cup {AnalysisOf(SeriesAbsent, NoLabelsSeries, SeriesAbsent)}
  ELSE FewResponses(k, d)

FetchResolveNext(c) ==
  \E k \in Fetches : \E resp \in SequentialResponses(k, ds[c]) : Resolve(c, k, resp)

NextSequential == \E c \in Calls : GenerateNext(c) \/ FetchResolveNext(c) \/ FetchReject(c)

SpecSequential == Init /\ [][NextSequential]_vars

(* SpecSections: a method of the generator called on its own, on a fresh   *)
(* document with the cursor at the top margin, for every argument.         *)

KpiInputs ==
  [ totalEquipment : {NoNum, 0, 4},
    avgFlowrate : {NoNum, 0, 1234},
    avgTemperature : {NoNum, 0, 3500, 2049},
    dominantType : {Undef, Null, "", "pump"} ]

\* the generator as constructed
InitSections == InitWith({DefaultConfig})

\* the layout state of a fresh document
FreshLayout == [doc |-> NewDoc, y |-> config.top, by |-> 1, thrown |-> ""]

\* The generator after the method has run with layout L
Applied(L) ==
  /\ docs' = <<L.doc>>
  /\ gen' = [ doc |-> 1,
              pageWidth |-> PageWidthOf(config.size),
              pageHeight |-> PageHeightOf(config.size),
              contentWidth |-> PageWidthOf(config.size) - config.left - config.right,
              currentY |-> L.y ]
  /\ UNCHANGED <<config, pc, ds, fetch, fetched, result, mydoc, auth, app, view, upload>>

DrawSummarySection ==
  \E kpis \in KpiInputs :
    /\ arg' = [method |-> "_drawSummarySection", kpis |-> kpis]
    /\ Applied(_drawSummarySection(FreshLayout, kpis))

NextSections == DrawSummarySection

SpecSections == InitSections /\ [][NextSections]_vars

----------------------------------------------------------------------------
(* SpecBars: _drawChartsSection called on its own, on a fresh document of  *)
(* either page size, with one series of n bars and the other two absent.   *)

\* the generator once generate has set the page dimensions and the cursor
InitBars ==
  /\ config \in {DefaultConfig, [DefaultConfig EXCEPT !.size = "letter"]}
  /\ gen = [ doc |-> 0,
             pageWidth |-> PageWidthOf(config.size),
             pageHeight |-> PageHeightOf(config.size),
             contentWidth |-> PageWidthOf(config.size) - config.left - config.right,
             currentY |-> config.top ]
  /\ docs = <<>>
  /\ pc = [c \in Calls |-> "idle"]
  /\ ds = [c \in Calls |-> ""]
  /\ fetch = [c \in Calls |-> [k \in Fetches |-> "none"]]
  /\ fetched = [c \in Calls |-> NoFetched]
  /\ result = [c \in Calls |-> NoResult]
  /\ mydoc = [c \in Calls |-> 0]
  /\ arg = NoArg
  /\ auth = initAuthState(EmptyStorage)
  /\ app = NewApp(initAuthState(EmptyStorage))
  /\ view = NewView
  /\ upload = NewUpload

\* a series of n bars
BarSeries(n) == Series(TRUE, [j \in 1..n |-> "eq"], TRUE, [j \in 1..n |-> j])

ChartKeys == {"equipmentTypes", "temperatureVsEquipment", "pressureDistribution"}

\* chartData with the series of n bars under one key
OneChart(key, n) == [k \in ChartKeys |-> IF k = key THEN BarSeries(n) ELSE SeriesAbsent]

DrawChartsSection ==
  \E key \in ChartKeys, n \in 1..MaxBarCount :
    /\ arg' = [method |-> "_drawChartsSection", kpis |-> NoKpis]
    /\ Applied(_drawChartsSection(FreshLayout, OneChart(key, n)))

NextBars == DrawChartsSection

SpecBars == InitBars /\ [][NextBars]_vars

----------------------------------------------------------------------------
(* Properties *)

DocIds == 1..Len(docs)
OpIds(d) == DOMAIN docs[d].ops
OpsWith(d, tags) == {n \in OpIds(d) : docs[d].ops[n].tag \in tags}
OpsBy(c) == {<<d, n>> \in UNION {{d} \X OpIds(d) : d \in DocIds} : docs[d].ops[n].by = c}

SetMax(S) == CHOOSE x \in S : \A y \in S : y <= x

\* The document a finished call returned
Returned(c) == docs[result[c].doc]

\* The length of the preview and of the column list a call received
PreviewLength(response) == IF response.hasPreview THEN response.rows ELSE 0
ColumnsLength(response) == IF response.hasColumns THEN response.cols ELSE 0

\* C1: whenever calls of generate on the singleton overlap, each call
\* returns exactly the drawing operations of its own data, laid out on a
\* fresh document from the top margin, and none of another call.
C1_OwnDocument ==
  \A c \in Calls :
    pc[c] = "done" =>
      LET own == Layout(c, fetched[c], NewDoc, config.top).doc
      IN Payload(c).pages = own.pages /\ Payload(c).ops = own.ops

\* C2: a call one of whose three requests failed has rejected with the
\* error of that request, has drawn nothing on any document, and has
\* produced no payload -- also after its other responses have arrived.
C2_FetchFailureRejects ==
  \A c \in Calls :
    (\E k \in Fetches : fetch[c][k] = "rejected") =>
      /\ pc[c] = "rejected"
      /\ result[c].kind = "error"
      /\ result[c].error.name = "APIError"
      /\ result[c].error.from \in Fetches
      /\ fetch[c][result[c].error.from] = "rejected"
      /\ result[c].doc = 0 /\ result[c].nops = 0
      /\ OpsBy(c) = {}

\* a call rejected after one response had arrived, whose third response
\* arrived later, while another call has laid out its document
C2_Witness ==
  \E c \in Calls :
    /\ pc[c] = "rejected"
    /\ \E k1, k2, k3 \in Fetches :
         fetch[c][k1] = "resolved" /\ fetch[c][k2] = "rejected" /\ fetch[c][k3] = "dropped"
    /\ \E c2 \in Calls \ {c} : pc[c2] = "done"

\* C3: a call whose three requests all resolved has run every section and
\* returned a payload, whatever the shape of the data.
C3_LayoutNeverThrows ==
  \A c \in Calls :
    (\A k \in Fetches : fetch[c][k] = "resolved") => pc[c] = "done" /\ result[c].kind = "blob"

\* C4: the three requests of a call are issued together, and a call has
\* drawn something only if all three of its requests have resolved.
C4_FetchesBeforeLayout ==
  \A c \in Calls :
    /\ (\A k \in Fetches : fetch[c][k] = "none") \/ (\A k \in Fetches : fetch[c][k] # "none")
    /\ OpsBy(c) # {} => \A k \in Fetches : fetch[c][k] = "resolved"

\* a call has laid out its document while a request of another call is pending
C4_Witness ==
  \E c \in Calls, c2 \in Calls :
    /\ c # c2
    /\ pc[c] = "done" /\ OpsBy(c) # {}
    /\ \E k \in Fetches : fetch[c2][k] = "pending"

\* C5: in a finished document every page carries exactly one header block:
\* title at the top margin (72), rule at 72 + 36, cursor at 72 + 36 + 16
\* after it.
C5_HeaderOnEveryPage ==
  \A c \in Calls :
    pc[c] = "done" =>
      LET d == result[c].doc
          doc == docs[d]
          titles(p) == {n \in OpsWith(d, {"header.title"}) : doc.ops[n].page = p}
          rules(p) == {n \in OpsWith(d, {"header.rule"}) : doc.ops[n].page = p}
          ends(p) == {m \in DOMAIN doc.marks :
                        doc.marks[m].tag = "header.end" /\ doc.marks[m].page = p}
      IN \A p \in 1..doc.pages :
           /\ Cardinality(titles(p)) = 1
           /\ Cardinality(rules(p)) = 1
           /\ Cardinality(ends(p)) = 1
           /\ \A n \in titles(p) : doc.ops[n].y = Pt(72) /\ doc.ops[n].txt = HeaderTitle
           /\ \A n \in rules(p) : doc.ops[n].y = Pt(72 + 36)
           /\ \A m \in ends(p) : doc.marks[m].y = Pt(72 + 36 + 16)

\* a finished document with a page added before the chart pair and a page
\* added inside the table
C5_Witness ==
  /\ pc[1] = "done"
  /\ LET doc == Returned(1)
     IN /\ \E m \in DOMAIN doc.marks : doc.marks[m].tag = "pair.start" /\ doc.marks[m].page = 2
        /\ \E m \in DOMAIN doc.bands : doc.bands[m].page > doc.bands[1].page

\* C6: the footers are the last drawing operations of a finished document;
\* each page i of its N pages has exactly one footer, reading "Page i of N".
C6_FooterOnEveryPage ==
  \A c \in Calls :
    pc[c] = "done" =>
      LET d == result[c].doc
          doc == docs[d]
          N == doc.pages
          FooterTags == {"footer.rule", "footer.left", "footer.center", "footer.right"}
          footers == OpsWith(d, FooterTags)
      IN /\ \A n \in footers, m \in OpIds(d) \ footers : m < n
         /\ result[c].pages = N
         /\ \A i \in 1..N : \A t \in FooterTags :
              Cardinality({n \in OpsWith(d, {t}) : doc.ops[n].page = i}) = 1
         /\ \A n \in OpsWith(d, {"footer.center"}) :
              doc.ops[n].txt = "Page " \o ToString(doc.ops[n].page) \o " of " \o ToString(N)

\* a finished document of at least three pages
C6_Witness == pc[1] = "done" /\ Returned(1).pages >= 3

\* C7: when both charts of the pair are drawn, the Pressure Distribution
\* title is at the y of the Temperature Profile title (tempStartY) and its
\* chart body starts at tempStartY + 16 (a bar's bottom edge is the start
\* of the body plus the chart height, 120 - 30).
C7_PairSameOffset ==
  \A d \in DocIds :
    \A n \in OpsWith(d, {"subsection.title"}), m \in OpsWith(d, {"pressure.title"}) :
      LET temp == docs[d].ops[n]
          press == docs[d].ops[m]
      IN (temp.txt = "Temperature Profile" /\ temp.by = press.by) =>
           /\ press.y = temp.y
           /\ \A b \in OpsWith(d, {"bar"}) :
                (docs[d].ops[b].txt = Colors.pressure /\ docs[d].ops[b].by = press.by) =>
                  docs[d].ops[b].y - Pt(120 - 30) = temp.y + Pt(16)

\* C8: after the pair, before marginBottom is added, the cursor is at the
\* largest bottom (start of the body + 120) of the charts drawn in the pair.
C8_CursorAtPairBottom ==
  \A d \in DocIds :
    \A m \in DOMAIN docs[d].marks :
      LET mark == docs[d].marks[m]
          bottoms == {docs[d].ops[b].y + Pt(30) :
                        b \in {n \in OpsWith(d, {"bar"}) :
                                 /\ docs[d].ops[n].by = mark.by
                                 /\ docs[d].ops[n].txt \in {Colors.temperature, Colors.pressure}}}
      IN (mark.tag = "pair.end" /\ bottoms # {}) => mark.y = SetMax(bottoms)

\* C9: of a preview of more than maxRows rows the first maxRows rows are
\* laid out, in order, and one notice "Showing first <maxRows> of <total>
\* records." is drawn below them; of a shorter preview every row is laid
\* out and no notice is drawn.
C9_TruncationNotice ==
  \A c \in Calls :
    pc[c] = "done" =>
      LET d == result[c].doc
          doc == docs[d]
          total == PreviewLength(fetched[c].summary)
          shown == Min(total, config.maxRows)
          notices == OpsWith(d, {"table.notice"})
      IN /\ Len(doc.bands) = shown
         /\ \A m \in 1..shown : doc.bands[m].i = m - 1
         /\ \A n \in OpsWith(d, {"table.cell", "table.zebra"}) : doc.ops[n].i \in 0..(shown - 1)
         /\ \A i \in 0..(shown - 1) :
              Cardinality({n \in OpsWith(d, {"table.zebra"}) : doc.ops[n].i = i}) = i % 2
         /\ total <= config.maxRows => notices = {}
         /\ total > config.maxRows =>
              /\ Cardinality(notices) = 1
              /\ \A n \in notices :
                   /\ doc.ops[n].txt = "Showing first " \o ToString(config.maxRows) \o " of "
                                         \o ToString(total) \o " records."
                   /\ \A b \in OpsWith(d, {"table.cell", "table.zebra", "table.head"}) : b < n
                   /\ \/ doc.ops[n].page > doc.bands[shown].page
                      \/ /\ doc.ops[n].page = doc.bands[shown].page
                         /\ doc.ops[n].y >= doc.bands[shown].y + RowHeight

\* the default configuration and a preview of 25 rows
C9_Witness ==
  /\ pc[1] = "done"
  /\ config = DefaultConfig
  /\ PreviewLength(fetched[1].summary) = 25
  /\ Len(Returned(1).bands) = 20
  /\ \E n \in OpsWith(result[1].doc, {"table.notice"}) :
       Returned(1).ops[n].txt = "Showing first 20 of 25 records."

\* C10: of a preview with more than 6 headers, the header row and every
\* data row draw exactly 6 cells, those of the first 6 headers in order,
\* and no row is read under a later header or at an index of 6 or more.
C10_SixColumns ==
  \A c \in Calls :
    (pc[c] = "done" /\ ColumnsLength(fetched[c].summary) > 6
       /\ PreviewLength(fetched[c].summary) > 0) =>
      LET d == result[c].doc
          doc == docs[d]
          headcells == OpsWith(d, {"table.headcell"})
          cells(i) == {n \in OpsWith(d, {"table.cell"}) : doc.ops[n].i = i}
      IN /\ Cardinality(headcells) = 6
         /\ \A n \in headcells :
              /\ doc.ops[n].j \in 0..5
              /\ doc.ops[n].txt = Substring(AllHeaders[doc.ops[n].j + 1], 15)
         /\ \A n, m \in headcells : n < m => doc.ops[n].j < doc.ops[m].j
         /\ \A b \in DOMAIN doc.bands :
              /\ Cardinality(cells(doc.bands[b].i)) = 6
              /\ \A n, m \in cells(doc.bands[b].i) : n < m => doc.ops[n].j < doc.ops[m].j
              /\ \A n \in cells(doc.bands[b].i) : doc.ops[n].j \in 0..5
         /\ \A l \in doc.lookups :
              /\ l.kind = "name" => l.name \in HeaderSet(6)
              /\ l.kind = "index" => l.idx \in 0..5

\* a table of 7 headers whose rows were read at their sixth index
C10_Witness ==
  /\ pc[1] = "done"
  /\ ColumnsLength(fetched[1].summary) > 6
  /\ Len(Returned(1).bands) >= 2
  /\ [kind |-> "index", name |-> "", idx |-> 5] \in Returned(1).lookups

\* The preview rows and headers a call received through getDatasetSummary
PreviewOf(c) == getDatasetSummary(fetched[c].summary).previewData
HeadersOf(c) == getDatasetSummary(fetched[c].summary).previewHeaders

\* C11: a table cell whose row has neither a value under the header name
\* nor one under the column index (null or undefined) is drawn as the
\* em-dash placeholder.
C11_MissingCellPlaceholder ==
  \A c \in Calls :
    pc[c] = "done" =>
      \A n \in OpsWith(result[c].doc, {"table.cell"}) :
        LET cell == Returned(c).ops[n]
            row == PreviewOf(c)[cell.i + 1]
            header == HeadersOf(c)[cell.j + 1]
        IN (cell.by = c /\ RowAtName(row, header) \in {Undef, Null}
              /\ RowAtIndex(row, cell.j) \in {Undef, Null}) =>
             cell.txt = "--"

\* C12: the Status value of the metadata block (the fourth item) is
\* "Unknown" whenever the dataset carries no validationStatus, whatever the
\* KPI values.
C12_StatusUnknownWithoutValidation ==
  \A c \in Calls :
    (pc[c] = "done" /\ fetched[c].dataset.validationStatus = Undef) =>
      \A n \in OpsWith(result[c].doc, {"meta.value"}) :
        (Returned(c).ops[n].by = c /\ Returned(c).ops[n].i = 3) =>
          Returned(c).ops[n].txt = "Unknown"

\* The text of the value of KPI card idx in the document of SpecSections
KpiValue(idx) ==
  LET n == CHOOSE n \in OpsWith(1, {"kpi.value"}) : docs[1].ops[n].i = idx
  IN docs[1].ops[n].txt

\* C13: _drawSummarySection always draws exactly four cards; an avgFlowrate
\* or avgTemperature that is missing or 0 is shown as "0.0" and the unit, a
\* missing totalEquipment as "0", a missing dominantType as the em dash.
C13_KpiDefaults ==
  arg.method = "_drawSummarySection" =>
    /\ Cardinality(OpsWith(1, {"kpi.card"})) = 4
    /\ \A idx \in 0..3 :
         /\ Cardinality({n \in OpsWith(1, {"kpi.value"}) : docs[1].ops[n].i = idx}) = 1
         /\ Cardinality({n \in OpsWith(1, {"kpi.label"}) : docs[1].ops[n].i = idx}) = 1
    /\ arg.kpis.totalEquipment \in {NoNum, 0} => KpiValue(0) = "0"
    /\ arg.kpis.avgFlowrate \in {NoNum, 0} => KpiValue(1) = "0.0 m3/hr"
    /\ arg.kpis.avgTemperature \in {NoNum, 0} => KpiValue(2) = "0.0 C"
    /\ arg.kpis.dominantType \in {Undef, Null} => KpiValue(3) = "--"

\* every field of the summary is missing
C13_Witness ==
  /\ arg.method = "_drawSummarySection"
  /\ arg.kpis = [totalEquipment |-> NoNum, avgFlowrate |-> NoNum,
                 avgTemperature |-> NoNum, dominantType |-> Undef]
  /\ KpiValue(3) = "--"

\* The chart series a call received through getAnalysis
ChartDataOf(c) == getAnalysis(fetched[c].analysis).chartData

\* a series whose labels array is there and empty
NoLabels(series) == series.hasLabels /\ Len(series.labels) = 0

\* the bars of the chart drawn in a colour by call c
BarsOf(c, color) ==
  {<<d, n>> \in OpsBy(c) : docs[d].ops[n].tag = "bar" /\ docs[d].ops[n].txt = color}

\* C14: once the three requests of a call have resolved, a chart whose
\* series has an empty labels sequence has no bar drawn, whatever the values
\* of the series are, and when all three series have empty labels generate
\* ends normally with no bar label and no axis drawn.
C14_NoBodyWithoutLabels ==
  \A c \in Calls :
    (\A k \in Fetches : fetch[c][k] = "resolved") =>
      /\ NoLabels(ChartDataOf(c).equipmentTypes) => BarsOf(c, Colors.equipment) = {}
      /\ NoLabels(ChartDataOf(c).temperatureVsEquipment) => BarsOf(c, Colors.temperature) = {}
      /\ NoLabels(ChartDataOf(c).pressureDistribution) => BarsOf(c, Colors.pressure) = {}
      /\ ( /\ NoLabels(ChartDataOf(c).equipmentTypes)
           /\ NoLabels(ChartDataOf(c).temperatureVsEquipment)
           /\ NoLabels(ChartDataOf(c).pressureDistribution) ) =>
           /\ pc[c] = "done"
           /\ \A n \in OpsWith(result[c].doc, {"bar.label", "axis.x", "axis.y"}) :
                Returned(c).ops[n].by # c

\* The pages added while the table of a finished document was drawn: those
\* after the page of its column-title row
TablePages(c) ==
  {p \in 1..Returned(c).pages :
     \E n \in OpsWith(result[c].doc, {"table.head"}) : Returned(c).ops[n].page < p}

\* C15: every page added while the data table was drawn holds at least one
\* data row band: no page break follows the last drawn row.
C15_NoBreakAfterLastRow ==
  \A c \in Calls :
    pc[c] = "done" =>
      \A p \in TablePages(c) :
        \E b \in DOMAIN Returned(c).bands : Returned(c).bands[b].page = p

\* the cursor below the page header
BelowHeader == config.top + Pt(36) + config.md

\* C16: the column-title row of a non-empty table is drawn exactly once,
\* before the first data row; the first row after a page break lies on the
\* next page directly below the page header, the other rows directly below
\* the row before them.
C16_ColumnTitlesOnce ==
  \A c \in Calls :
    (pc[c] = "done" /\ Len(PreviewOf(c)) > 0) =>
      LET d == result[c].doc
          doc == docs[d]
          heads == OpsWith(d, {"table.head"})
      IN /\ Cardinality(heads) = 1
         /\ Cardinality(OpsWith(d, {"table.headcell"})) = Len(DisplayHeaders(HeadersOf(c)))
         /\ \A h \in OpsWith(d, {"table.head", "table.headcell"}) :
              \A n \in OpsWith(d, {"table.cell", "table.zebra"}) : h < n
         /\ \A h \in heads :
              /\ \A n \in OpsWith(d, {"table.headcell"}) : doc.ops[n].page = doc.ops[h].page
              /\ doc.bands[1].page = doc.ops[h].page
              /\ doc.bands[1].y = doc.ops[h].y + RowHeight
         /\ \A b \in 2..Len(doc.bands) :
              \/ /\ doc.bands[b].page = doc.bands[b - 1].page
                 /\ doc.bands[b].y = doc.bands[b - 1].y + RowHeight
              \/ /\ doc.bands[b].page = doc.bands[b - 1].page + 1
                 /\ doc.bands[b].y = BelowHeader

\* a table whose rows continue on a second page
C16_Witness ==
  /\ pc[1] = "done"
  /\ \E b \in 2..Len(Returned(1).bands) :
       /\ Returned(1).bands[b].page = Returned(1).bands[b - 1].page + 1
       /\ Returned(1).bands[b].y = BelowHeader

\* the rows the table of call c draws
RowsToDraw(c) == Len(DisplayData(PreviewOf(c)))

\* The number of row bands that fit on the first page of the table: the
\* rows after which the cursor, starting below the column-title row at the
\* first band, is still at or below pageHeight - bottom margin - 50
RowsThatFit(c) ==
  LET limit == gen.pageHeight - config.bottom - Pt(50)
      start == Returned(c).bands[1].y
  IN IF limit < start THEN 0 ELSE (limit - start) \div RowHeight

\* C17: when more rows are drawn than fit on the first page of the table,
\* the document has at least 3 pages: page 1 with the metadata, the KPI
\* cards and the charts title, and at least two pages from the table on.
C17_ThreePagesWhenTableOverflows ==
  \A c \in Calls :
    (pc[c] = "done" /\ RowsToDraw(c) > 0 /\ RowsToDraw(c) > RowsThatFit(c)) =>
      LET d == result[c].doc
          doc == docs[d]
      IN /\ doc.pages >= 3
         /\ result[c].pages >= 3
         /\ \A h \in OpsWith(d, {"table.head"}) : doc.pages - doc.ops[h].page + 1 >= 2
         /\ \A n \in OpsWith(d, {"meta.label", "meta.value", "kpi.card", "kpi.value"}) :
              doc.ops[n].page = 1
         /\ \E n \in OpsWith(d, {"section.title"}) :
              doc.ops[n].txt = ChartsTitle /\ doc.ops[n].page = 1

\* 24 rows of the shipped height, of which 22 fit on the first table page
C17_Witness ==
  /\ pc[1] = "done"
  /\ config.rowHeight = Pt(24)
  /\ RowsToDraw(1) = 24
  /\ RowsThatFit(1) = 22
  /\ Returned(1).pages = 3
  /\ Returned(1).bands[24].page = 3

\* drawing operations without the call that made them
Unsigned(ops) == [n \in DOMAIN ops |-> [ops[n] EXCEPT !.by = 0]]

\* C18: when calls do not overlap, a finished call returns the document it
\* created, holding exactly the layout of its own data from the top margin,
\* whatever calls came before it; two finished calls with equal data
\* return equal pages and drawing operations.
C18_SequentialCallsIndependent ==
  /\ \A c \in Calls :
       pc[c] = "done" =>
         /\ result[c].doc = mydoc[c]
         /\ Unsigned(Payload(c).ops) = Unsigned(Layout(0, fetched[c], NewDoc, config.top).doc.ops)
         /\ Payload(c).pages = Layout(0, fetched[c], NewDoc, config.top).doc.pages
  /\ \A c1 \in Calls, c2 \in Calls :
       (pc[c1] = "done" /\ pc[c2] = "done" /\ fetched[c1] = fetched[c2]) =>
         /\ Payload(c1).pages = Payload(c2).pages
         /\ Unsigned(Payload(c1).ops) = Unsigned(Payload(c2).ops)

\* a call finished after a call that rejected on a failed request, one of
\* whose responses arrived later
C18_Witness ==
  /\ pc[1] = "rejected"
  /\ \E k \in Fetches : fetch[1][k] = "dropped"
  /\ pc[2] = "done"
  /\ Payload(2).pages = 2

\* the lowest y a chart drawing call reaches
OpBottom(op) == IF op.tag = "axis.y" THEN op.y + op.hn ELSE op.y

ChartTags == {"subsection.title", "pressure.title", "bar", "bar.label", "axis.x", "axis.y"}

\* C19: the temperature/pressure pair starts with the cursor at or above
\* pageHeight - 250, on page 1 or directly below the header of a new second
\* page, and every title, bar, bar label and axis of the charts lies on the
\* page where the pair starts or before, above the footer rule at
\* pageHeight - bottom margin + 10.
C19_PairFitsOnPage ==
  \A d \in DocIds :
    \A m \in DOMAIN docs[d].marks :
      LET mark == docs[d].marks[m]
      IN mark.tag = "pair.start" =>
           /\ mark.y <= gen.pageHeight - Pt(250)
           /\ mark.page \in {1, 2}
           /\ mark.page = 2 =>
                /\ mark.y = BelowHeader
                /\ \E n \in OpsWith(d, {"header.title"}) : docs[d].ops[n].page = 2
           /\ \A n \in OpsWith(d, ChartTags) :
                docs[d].ops[n].by = mark.by =>
                  /\ docs[d].ops[n].page <= mark.page
                  /\ OpBottom(docs[d].ops[n]) < gen.pageHeight - config.bottom + Pt(10)
                  /\ docs[d].ops[n].tag = "pressure.title" => docs[d].ops[n].page = mark.page

\* both charts of the pair drawn on a second page, after a page break
C19_Witness ==
  /\ pc[1] = "done"
  /\ \E m \in DOMAIN Returned(1).marks :
       Returned(1).marks[m].tag = "pair.start" /\ Returned(1).marks[m].page = 2
  /\ \E n \in OpsWith(result[1].doc, {"bar"}) :
       Returned(1).ops[n].txt = Colors.temperature /\ Returned(1).ops[n].page = 2
  /\ \E n \in OpsWith(result[1].doc, {"bar"}) :
       Returned(1).ops[n].txt = Colors.pressure /\ Returned(1).ops[n].page = 2

\* height - 30 of the chart a bar belongs to
ChartHeightOf(bar) == IF bar.txt = Colors.equipment THEN Pt(160 - 30) ELSE Pt(120 - 30)

\* the bars of the chart of bar b: those of its colour drawn by its call
SameChart(d, b) ==
  {n \in OpsWith(d, {"bar"}) :
     docs[d].ops[n].txt = docs[d].ops[b].txt /\ docs[d].ops[n].by = docs[d].ops[b].by}

\* C20: the height hn / hd of every bar is a defined number (hd > 0)
\* between 0 and height - 30, so that its top edge is not above the top of
\* the chart, and in every chart the bar of the largest value is exactly
\* height - 30 tall.
C20_BarHeights ==
  \A d \in DocIds :
    \A b \in OpsWith(d, {"bar"}) :
      LET bar == docs[d].ops[b]
      IN /\ bar.hd > 0
         /\ 0 <= bar.hn
         /\ bar.hn <= bar.hd * ChartHeightOf(bar)
         /\ \E n \in SameChart(d, b) :
              docs[d].ops[n].hn = docs[d].ops[n].hd * ChartHeightOf(bar)

\* the left edge x and the width of the chart a bar belongs to
ChartXOf(bar) == IF bar.txt = Colors.pressure THEN config.left + ChartWidth + Pt(20) ELSE config.left
ChartWidthOf(bar) == IF bar.txt = Colors.equipment THEN gen.contentWidth ELSE ChartWidth

\* C21: every bar drawn is more than 0 and at most 40 wide, lies between
\* x + 30 and x + width - 10 of its chart, and starts 5pt after the right
\* edge of the bar before it (widths and positions are xd-fold).
C21_BarWidths ==
  \A d \in DocIds :
    \A b \in OpsWith(d, {"bar"}) :
      LET bar == docs[d].ops[b]
      IN /\ bar.wn > 0
         /\ bar.wn <= Pt(40) * bar.xd
         /\ bar.xn >= (ChartXOf(bar) + Pt(30)) * bar.xd
         /\ bar.xn + bar.wn <= (ChartXOf(bar) + ChartWidthOf(bar) - Pt(10)) * bar.xd
         /\ \A n \in SameChart(d, b) :
              docs[d].ops[n].i = bar.i + 1 =>
                docs[d].ops[n].xn = bar.xn + bar.wn + Pt(5) * bar.xd

\* C25: under the shipped configuration a finished document has exactly 2
\* pages: the pair of charts starts on page 1 with the cursor at most at
\* 548, the only page added is the one before the table, and every table
\* band lies on page 2 with the cursor after it at or above the threshold
\* pageHeight - bottom margin - 50 of the break inside the table.
C25_TwoPagesByDefault ==
  config = DefaultConfig =>
    \A c \in Calls :
      pc[c] = "done" =>
        LET d == result[c].doc
        IN /\ Returned(c).pages = 2
           /\ result[c].pages = 2
           /\ Cardinality(OpsWith(d, {"page"})) = 1
           /\ \A m \in DOMAIN Returned(c).marks :
                Returned(c).marks[m].tag = "pair.start" =>
                  Returned(c).marks[m].page = 1 /\ Returned(c).marks[m].y <= Pt(548)
           /\ \A p \in OpsWith(d, {"page"}) :
                \A n \in OpsWith(d, ChartTags \cup {"section.title"}) :
                  Returned(c).ops[n].txt # TableTitle => n < p
           /\ \A b \in DOMAIN Returned(c).bands :
                /\ Returned(c).bands[b].page = 2
                /\ Returned(c).bands[b].y + RowHeight <= gen.pageHeight - config.bottom - Pt(50)

\* the shipped configuration with the equipment chart drawn, the pair
\* starting at 548, and a preview longer than the 20 rows drawn
C25_Witness ==
  /\ config = DefaultConfig
  /\ pc[1] = "done"
  /\ Returned(1).pages = 2
  /\ BarsOf(1, Colors.equipment) # {}
  /\ \E m \in DOMAIN Returned(1).marks :
       Returned(1).marks[m].tag = "pair.start" /\ Returned(1).marks[m].y = Pt(548)
  /\ Len(PreviewOf(1)) > 20
  /\ Len(Returned(1).bands) = 20

\* the y of the table bands (column-title row and data rows) of call c's
\* document that lie on page p
BandYsOn(c, p) ==
  {Returned(c).ops[n].y : n \in {h \in OpsWith(result[c].doc, {"table.head"}) :
                                    Returned(c).ops[h].page = p}}
  \cup {Returned(c).bands[b].y : b \in {k \in DOMAIN Returned(c).bands :
                                           Returned(c).bands[k].page = p}}

SetMin(S) == CHOOSE x \in S : \A y \in S : x <= y

\* C26: the border rectangle of the table starts at the first band of the
\* page it is drawn on, is as high as the bands of that page together, and
\* starts inside the page.
C26_BorderEnclosesBands ==
  \A c \in Calls :
    pc[c] = "done" =>
      \A n \in OpsWith(result[c].doc, {"table.border"}) :
        LET border == Returned(c).ops[n]
            ys == BandYsOn(c, border.page)
        IN /\ border.y >= 0
           /\ border.hd = 1
           /\ border.hn = Cardinality(ys) * RowHeight
           /\ ys # {} => border.y = SetMin(ys)

\* C27: with the shipped row height, the column-title row and every data
\* row end at or above the footer rule pageHeight - bottom margin + 10 of
\* their page, and every data row starts at or above pageHeight - bottom
\* margin - 50, for every number of rows and every maxRows.
C27_BandsAboveFooter ==
  config.rowHeight = DefaultConfig.rowHeight =>
    \A c \in Calls :
      pc[c] = "done" =>
        /\ \A h \in OpsWith(result[c].doc, {"table.head"}) :
             Returned(c).ops[h].y + RowHeight <= gen.pageHeight - config.bottom + Pt(10)
        /\ \A b \in DOMAIN Returned(c).bands :
             /\ Returned(c).bands[b].y + RowHeight <= gen.pageHeight - config.bottom + Pt(10)
             /\ Returned(c).bands[b].y <= gen.pageHeight - config.bottom - Pt(50)

\* 25 rows of the shipped height, the last of them after a page break
C27_Witness ==
  /\ config.rowHeight = DefaultConfig.rowHeight
  /\ pc[1] = "done"
  /\ Len(Returned(1).bands) = 25
  /\ Returned(1).bands[25].page = 3
  /\ \E b \in DOMAIN Returned(1).bands :
       Returned(1).bands[b].y + RowHeight > gen.pageHeight - config.bottom - Pt(50)

----------------------------------------------------------------------------
(* SpecAuth: authService on its own, with up to MaxAuthCalls calls of      *)
(* login, register and logout whose requests end in any order, and         *)
(* listeners that subscribe and unsubscribe.                               *)

\* the state of the generator, which the service does not touch
pdfVars == <<config, gen, docs, pc, ds, fetch, fetched, result, mydoc, arg>>

IdleGenerator ==
  /\ config = DefaultConfig
  /\ gen = NewGenerator
  /\ docs = <<>>
  /\ pc = [c \in Calls |-> "idle"]
  /\ ds = [c \in Calls |-> ""]
  /\ fetch = [c \in Calls |-> [k \in Fetches |-> "none"]]
  /\ fetched = [c \in Calls |-> NoFetched]
  /\ result = [c \in Calls |-> NoResult]
  /\ mydoc = [c \in Calls |-> 0]
  /\ arg = NoArg

InitAuth ==
  /\ IdleGenerator
  /\ \E storage \in Storages : auth = initAuthState(storage)
  /\ app = NewApp(auth)
  /\ view = NewView
  /\ upload = NewUpload

Subscribe ==
  \E l \in Listeners :
    /\ auth' = subscribe(auth, l)
    /\ auth' # auth
    /\ UNCHANGED <<pdfVars, app, view, upload>>

Unsubscribe ==
  \E l \in Listeners :
    /\ auth' = unsubscribe(auth, l)
    /\ auth' # auth
    /\ UNCHANGED <<pdfVars, app, view, upload>>

AuthCall ==
  \E kind \in AuthKinds :
    /\ Len(auth.calls) < MaxAuthCalls
    /\ auth' = authCall(auth, kind)
    /\ UNCHANGED <<pdfVars, app, view, upload>>

PendingAuthCalls == {k \in DOMAIN auth.calls : auth.calls[k].pc = "pending"}

AuthResponse ==
  \E k \in PendingAuthCalls, outcome \in Outcomes, data \in Sessions :
    /\ auth' = authAfter(auth, k, outcome, data)
    /\ UNCHANGED <<pdfVars, app, view, upload>>

NextAuth == Subscribe \/ Unsubscribe \/ AuthCall \/ AuthResponse

SpecAuth == InitAuth /\ [][NextAuth]_vars

----------------------------------------------------------------------------
(* SpecApp: the App component mounted, subscribed to authService, with     *)
(* logins, registers and logouts, uploads reported by CSVUpload, and the   *)
(* responses to getRecentDatasets and claimDataset arriving in any order.  *)

\* App as first rendered and after its mount effect: loadHistory() and
\* authService.subscribe(listener)
InitApp ==
  /\ IdleGenerator
  /\ \E storage \in {EmptyStorage} \cup {StorageOf(s) : s \in Sessions} :
       /\ auth = subscribe(initAuthState(storage), "app")
       /\ app = loadHistory(NewApp(auth), auth, 0)
  /\ view = NewView
  /\ upload = NewUpload

AppAuthCall ==
  \E kind \in {"login", "logout"} :
    /\ Len(auth.calls) < MaxAppAuthCalls
    /\ auth' = authCall(auth, kind)
    /\ UNCHANGED <<pdfVars, app, view, upload>>

\* the request of a call of the service ends; if the service notifies its
\* listeners, the listener of App runs up to its first await
AppAuthResponse ==
  \E k \in PendingAuthCalls, outcome \in Outcomes, data \in Sessions :
    /\ auth' = authAfter(auth, k, outcome, data)
    /\ app' = IF auth'.log["app"] # auth.log["app"] THEN onAuthChange(app, auth') ELSE app
    /\ UNCHANGED <<pdfVars, view, upload>>

\* CSVUpload calls onUploadComplete
UploadComplete ==
  \E datasetId \in DatasetIds :
    /\ app.uploads < MaxUploads
    /\ app' = handleUploadComplete(app, auth, datasetId)
    /\ UNCHANGED <<pdfVars, auth, view, upload>>

PendingRequests(kind) ==
  {r \in DOMAIN app.requests : app.requests[r].kind = kind /\ app.requests[r].pc = "pending"}

\* the request of getRecentDatasets ends
HistoryResponse ==
  \E r \in PendingRequests("history"), ok \in BOOLEAN, datasets \in Histories :
    /\ app' = loadHistoryAfter(app, r, ok, datasets)
    /\ UNCHANGED <<pdfVars, auth, view, upload>>

\* the request of claimDataset ends
ClaimResponse ==
  \E r \in PendingRequests("claim"), ok \in BOOLEAN :
    /\ app' = onAuthChangeAfter(app, auth, r, ok)
    /\ UNCHANGED <<pdfVars, auth, view, upload>>

NextApp == AppAuthCall \/ AppAuthResponse \/ UploadComplete \/ HistoryResponse \/ ClaimResponse

SpecApp == InitApp /\ [][NextApp]_vars

----------------------------------------------------------------------------
(* SpecView: AnalysisCharts and SummaryScreen rendered by App with the     *)
(* datasetId of uploadedData, one of them at a time; the dataset changes   *)
(* while a component is mounted (handleReanalyze on the analysis screen,   *)
(* handleUploadComplete on the summary screen), and the responses arrive   *)
(* in any order.                                                           *)

\* the state of the rest of the application, which the components do not touch
IdleApp ==
  /\ IdleGenerator
  /\ auth = initAuthState(EmptyStorage)
  /\ app = NewApp(auth)

InitView == IdleApp /\ view = NewView /\ upload = NewUpload

Other(comp) == CHOOSE c \in Components : c # comp

\* App renders the screen of comp with a dataset: the component is mounted,
\* or re-rendered with the new datasetId; the other one is unmounted
Show ==
  \E comp \in Components, id \in DatasetIds :
    /\ Len(view[comp].requests) < MaxViewRequests
    /\ view' = [view EXCEPT ![comp] = IF view[comp].mounted THEN rerender(@, id)
                                      ELSE mount(@, id),
                            ![Other(comp)] = unmount(@)]
    /\ view' # view
    /\ UNCHANGED <<pdfVars, auth, app, upload>>

\* the Retry button of the error view
RetryFetch ==
  \E comp \in Components :
    /\ view[comp].mounted /\ view[comp].error # Null /\ view[comp].datasetId # Null
    /\ Len(view[comp].requests) < MaxViewRequests
    /\ view' = [view EXCEPT ![comp] = handleRetryFetch(@)]
    /\ UNCHANGED <<pdfVars, auth, app, upload>>

\* the request of getAnalysis or getDatasetSummary ends
FetchResponse ==
  \E comp \in Components, ok \in BOOLEAN :
    \E r \in {q \in DOMAIN view[comp].requests : view[comp].requests[q].pc = "pending"} :
      /\ view' = [view EXCEPT ![comp] = fetchDataAfter(@, r, ok)]
      /\ UNCHANGED <<pdfVars, auth, app, upload>>

NextView == Show \/ RetryFetch \/ FetchResponse

SpecView == InitView /\ [][NextView]_vars

----------------------------------------------------------------------------
(* SpecUpload: the CSVUpload component with files chosen through the file  *)
(* input, dropped on the zone, retried and cleared, and the responses to   *)
(* uploadCSV arriving in any order.                                        *)

InitUpload == IdleApp /\ view = NewView /\ upload = NewUpload

\* handleChange: the input is disabled, and the zone does not open the
\* file dialog, while uploadState is 'uploading'
Change ==
  \E file \in Files :
    /\ ~ShowsCard(upload) /\ upload.uploadState # "uploading"
    /\ Len(upload.requests) < MaxUploadRequests
    /\ upload' = processFile(upload, file, "change")
    /\ UNCHANGED <<pdfVars, auth, app, view>>

\* handleDrop: onDrop is attached to the zone in every uploadState
Drop ==
  \E file \in Files :
    /\ ~ShowsCard(upload)
    /\ Len(upload.requests) < MaxUploadRequests
    /\ upload' = processFile(upload, file, "drop")
    /\ UNCHANGED <<pdfVars, auth, app, view>>

\* handleRetry: the button is rendered with the error, if fileRef.current
Retry ==
  /\ ~ShowsCard(upload) /\ upload.error # Null /\ upload.fileRef # NoFile
  /\ Len(upload.requests) < MaxUploadRequests
  /\ upload' = processFile(upload, upload.fileRef, "retry")
  /\ UNCHANGED <<pdfVars, auth, app, view>>

\* handleClear: the button of the summary card
Clear ==
  /\ ShowsCard(upload)
  /\ upload' = handleClear(upload)
  /\ UNCHANGED <<pdfVars, auth, app, view>>

\* the request of uploadCSV ends
UploadResponse ==
  \E r \in {q \in DOMAIN upload.requests : upload.requests[q].pc = "pending"}, ok \in BOOLEAN :
    /\ upload' = processFileAfter(upload, r, ok)
    /\ UNCHANGED <<pdfVars, auth, app, view>>

NextUpload == Change \/ Drop \/ Retry \/ Clear \/ UploadResponse

SpecUpload == InitUpload /\ [][NextUpload]_vars

----------------------------------------------------------------------------
(* Properties of authService *)

\* the step in which the promise of call k settles
Settles(k) == auth.calls[k].pc = "pending" /\ auth'.calls[k].pc # "pending"

IsSubscribed(a, l) == \E i \in DOMAIN a.listeners : a.listeners[i] = l

\* C22: the step that ends a logout, however its request ended, resolves
\* it, leaves currentToken and currentUser null and both localStorage
\* entries removed, and calls every subscribed listener exactly once, with
\* {user: null, token: null}, also the listeners after one that throws.
C22_LogoutAlwaysClears ==
  [][\A k \in DOMAIN auth.calls :
       (auth.calls[k].kind = "logout" /\ Settles(k)) =>
         /\ auth'.calls[k].pc = "resolved"
         /\ auth'.currentToken = Null
         /\ auth'.currentUser = NullUser
         /\ auth'.localStorage = EmptyStorage
         /\ \A l \in Listeners :
              auth'.log[l] =
                IF IsSubscribed(auth, l)
                THEN Append(auth.log[l], [user |-> NullUser, token |-> Null, by |-> k])
                ELSE auth.log[l]]_vars

\* a logout whose request failed on the network has ended while a session
\* was stored, with a throwing listener subscribed before another one, and
\* both were notified by it
C22_Witness ==
  \E k \in DOMAIN auth.calls :
    /\ auth.calls[k].kind = "logout"
    /\ auth.calls[k].pc = "resolved"
    /\ auth.calls[k].outcome = "network"
    /\ auth.listeners = <<"thrower", "app">>
    /\ \A l \in Listeners :
         /\ Len(auth.log[l]) = 1
         /\ auth.log[l][1] = [user |-> NullUser, token |-> Null, by |-> k]
    /\ \E j \in DOMAIN auth.calls : j < k /\ auth.calls[j].kind = "login" /\ auth.calls[j].pc = "resolved"

\* C28: the step that ends a login or register whose request failed
\* rejects it with an AuthError and changes neither currentToken,
\* currentUser, localStorage nor what any listener has received; the step
\* that ends one whose request succeeded leaves currentToken and
\* currentUser equal to the two localStorage entries.
C28_FailedLoginChangesNothing ==
  [][\A k \in DOMAIN auth.calls :
       (auth.calls[k].kind \in {"login", "register"} /\ Settles(k)) =>
         IF auth'.calls[k].outcome = "ok"
         THEN /\ auth'.calls[k].pc = "resolved"
              /\ auth'.currentToken # Null
              /\ auth'.localStorage[TOKEN_KEY] = auth'.currentToken
              /\ auth'.currentUser # NullUser
              /\ auth'.localStorage[USER_KEY] = JSONStringify(auth'.currentUser)
         ELSE /\ auth'.calls[k].pc = "rejected"
              /\ auth'.calls[k].error.name = "AuthError"
              /\ auth'.currentToken = auth.currentToken
              /\ auth'.currentUser = auth.currentUser
              /\ auth'.localStorage = auth.localStorage
              /\ auth'.log = auth.log]_vars

\* a login rejected with a status while another session was stored and a
\* listener subscribed, and a register that succeeded after it
C28_Witness ==
  \E k \in DOMAIN auth.calls, j \in DOMAIN auth.calls :
    /\ auth.calls[k].kind = "login"
    /\ auth.calls[k].pc = "rejected"
    /\ auth.calls[k].outcome = "status"
    /\ auth.calls[j].kind = "register"
    /\ auth.calls[j].pc = "resolved"
    /\ auth.currentToken = "t2"
    /\ auth.localStorage = StorageOf([token |-> "t2", user |-> [id |-> 2, username |-> "bob"]])
    /\ auth.listeners # <<>>
    /\ \A l \in Listeners : \A n \in DOMAIN auth.log[l] : auth.log[l][n].by # k

----------------------------------------------------------------------------
(* Properties of App *)

\* C23: whenever authService holds no token, recentDatasets is empty.
C23_HistoryUserScoped ==
  ~isAuthenticated(auth) => app.recentDatasets = <<>>

\* the step in which the listener of App is notified with a token
NotifiedWithToken == auth'.log["app"] # auth.log["app"] /\ isAuthenticated(auth')

\* the requests a step adds
NewRequests == SubSeq(app'.requests, Len(app.requests) + 1, Len(app'.requests))

\* the step in which request r of App ends
RequestSettles(r) == app.requests[r].pc = "pending" /\ app'.requests[r].pc # "pending"

----------------------------------------------------------------------------
(* Properties of AnalysisCharts, SummaryScreen and CSVUpload *)

\* C29: a mounted component that has no request in flight and shows data
\* (no error view) shows the data returned for the datasetId it is
\* rendered with.
C29_ShowsCurrentDataset ==
  \A comp \in Components :
    ( /\ view[comp].mounted
      /\ view[comp].datasetId # Null
      /\ view[comp].error = Null
      /\ \A r \in DOMAIN view[comp].requests : view[comp].requests[r].pc # "pending" )
    => view[comp].data = view[comp].datasetId

\* the uploadCSV requests in flight
InFlight(u) == {r \in DOMAIN u.requests : u.requests[r].pc = "pending"}

\* the file of the request that was rejected last: with at most one request
\* in flight, that of the last rejected request sent
LastFailed(u) ==
  u.requests[SetMax({r \in DOMAIN u.requests : u.requests[r].pc = "rejected"})].file

\* C30: at most one uploadCSV request is in flight and every request sent
\* carries a file whose name ends in .csv; uploadState changes only from
\* idle or error to uploading (or to error, for a file that is not sent),
\* from uploading to success or error, and to idle by clearing; a request
\* sent by Retry carries the file of the upload that failed last.
C30_OneUploadAtATime ==
  [][/\ Cardinality(InFlight(upload')) <= 1
     /\ \A r \in DOMAIN upload'.requests : EndsWith(upload'.requests[r].file, CsvSuffix)
     /\ upload'.uploadState # upload.uploadState =>
          \/ upload.uploadState \in {"idle", "error"} /\ upload'.uploadState \in {"uploading", "error"}
          \/ upload.uploadState = "uploading" /\ upload'.uploadState \in {"success", "error"}
          \/ upload.uploadState = "success" /\ upload'.uploadState = "idle"
     /\ upload'.uploadState = upload.uploadState =>
          upload.uploadState # "uploading" \/ upload'.requests = upload.requests
     /\ \A r \in DOMAIN upload'.requests :
          (r \notin DOMAIN upload.requests /\ upload'.requests[r].via = "retry") =>
            /\ \E q \in DOMAIN upload.requests : upload.requests[q].pc = "rejected"
            /\ upload'.requests[r].file = LastFailed(upload)]_vars

====
